---- MODULE Spec2Model ----
(***************************************************************************)
(* State-machine model of the AudioEngine service (services/AudioEngine,   *)
(* the later of the two copies in src/unnamed/part_006, lines 819-1498).   *)
(*                                                                         *)
(* Numbers.  Gains and pitch multipliers are thousandths (0.15 is 150,     *)
(* 1.0 is 1000), rounded down.  Frequencies are Hz.                        *)
(*                                                                         *)
(* Platform.  The Web Audio nodes are not part of the repository; the      *)
(* model keeps of them only what the engine's code reads or schedules:     *)
(* whether a source was started, how often its stop was requested, the     *)
(* most recently scheduled target of a gain, and the end events (onended,  *)
(* setTimeout) the code registers handlers for.  Time is abstract: a       *)
(* pending end event may fire at any later step.                           *)
(***************************************************************************)
EXTENDS Integers, Sequences, FiniteSets, TLC

\* ------------------------------------------------------------------ bounds
MaxChannels == 2      \* Spec: channels created per run (playInteractionSound calls)
MaxStopCalls == 2     \* calls of one stop handle
DuckChannels == 3     \* SpecDuck: channels created per run
DuckStopCalls == 1    \* SpecDuck: calls of one stop handle
LoadChannels == 1     \* SpecLoad: channels created per run
SynthChannels == 2    \* SpecSynth: channels created per run
MaxPitchStep == 1350  \* SpecPitch: F ranges over 20 Hz .. MaxPitchStep * 20 Hz
ApiObjects == 2       \* SpecApi: channels, tones, drones and timers created per run
AmbientObjects == 3   \* SpecAmbient: channels, tones, drones and timers created per run
ApiRepeat == 1        \* SpecApi, SpecAmbient: calls of one stop handle; SpecPiano: toggles in a row
MaxTones == 3         \* SpecTone: calibration tones created per run
MaxDrones == 2        \* drone instances created per run
MaxTimers == 2        \* sequencer timers set per run
MaxRepeat == 2        \* toggle calls in one direction in a row
MaxStopAt == 30       \* SpecFade: a stop comes 0 .. MaxStopAt tenths of a second after the start
RateChannels == 1     \* SpecRate: channels created per run
MaxPianoNotes == 3    \* SpecPiano: sequencer notes (and timers) per run
MaxDurationTenths == 30  \* SpecEnvelope: buffer durations 0.1 s .. MaxDurationTenths tenths of a second
UiChannels == 3       \* SpecUi: channels created per run
StopChannels == 2     \* SpecStop: channels created per run
MaxRateKHz == 20      \* SpecRate: reference frequencies 1 kHz .. MaxRateKHz kHz

\* ---------------------------------------------------------- program values
BaseFreq == 8000      \* calculatePitch(8000, ...)
AggressiveMin == 500
AggressiveMax == 2500
DampedMin == 600
DampedMax == 1800
RainBaseVol == 150         \* 0.15
RainDuckedVol == 50        \* 0.05
RainSynthBaseVol == 80     \* 0.08
RainSynthDuckedVol == 30   \* 0.03
MIN_FREQ == 4500
MAX_FREQ == 10000

Ids == {"BIRD", "WIND", "LEAVES", "WATER", "RAIN", "INSECT"}
AggressiveIds == {"BIRD", "INSECT"}

Null == 0

VARIABLES
    deviceAvailable,  \* environment: can an AudioContext be constructed
    missing,          \* environment: the assets whose every fetch/decode attempt fails
    ctx,              \* "null" | "running" | "suspended"
    masterGain,       \* BOOLEAN: the master gain node exists
    created,          \* how many audio contexts (each with its master gain) were constructed
    buffers,          \* [Ids -> BOOLEAN]: birdBuffer .. insectBuffer decoded
    loadPc,           \* loadAmbientTrack: 0 not called, k awaiting asset k, 7 resolved, -1 rejected
    attempted,        \* the assets loadBuffer has been called for
    activeSounds,     \* the engine's Set<string>
    rainGainNode,     \* Null or the channel whose gain node it refers to
    chan,             \* the channels ever created, in creation order
    justPlayed,       \* the channel the last step created (Null if it created none)
    thrown,           \* an exception has escaped a public operation
    tinnitusOsc,      \* Null or the tone its oscillator belongs to
    tinnitusGain,     \* Null or the tone its gain node belongs to
    tones,            \* the calibration tones ever created
    stopToneRun,      \* stopTinnitusTone calls made in a row
    ambientSource,    \* Null (no code assigns a source to it)
    droneNodes,       \* Null (the empty array) or the drone instance it holds
    drones,           \* the drone instances ever created
    droneToggle,      \* the toggleDrone calls made last (direction, how many in a row)
    ambientBusy,      \* startAmbientTrack was called while something was sounding
    pianoTimeout,     \* Null or the id of the sequencer's timer
    timers,           \* ids of the pending sequencer timers (window.setTimeout)
    nextTimer,        \* the next id window.setTimeout returns
    notes,            \* sequencer notes produced
    pianoToggle,      \* the togglePiano calls made last (direction, how many in a row)
    pianoNotes,       \* the notes ever started: pitch, delays, release
    pF, pAggressive, pOut,  \* pitch specification: input and result
    pDone,                  \* pitch specification: calculatePitch has been applied
    fadePhase,        \* fade specification: "idle" | "playing" | "stopped"
    fadeCase,         \* the operation that built the gain, its buffer's duration (ms) and rate
    gainEvents,       \* the automation events scheduled on the gain, in time order
    sourceStops,      \* the stop(...) calls scheduled on the source nodes
    stopCall,         \* the stop operation made (its time, the end of its fade-out)
    mode,             \* App: "INTRO" | "TUNING" | "GARDEN"
    isPlaying,        \* App: the calibration tone's play flag
    appFrequency,     \* App: the frequency state (Hz)
    uiActive,         \* App: the activeSounds state (the ids shown as playing)
    stopFns           \* App: stopFns, id -> the channel whose stop handle is stored (Null: no entry)

ctxVars == <<ctx, masterGain, created>>
envVars == <<deviceAvailable, missing>>
loadVars == <<buffers, loadPc, attempted>>
chanVars == <<activeSounds, rainGainNode, chan, justPlayed>>
toneVars == <<tinnitusOsc, tinnitusGain, tones, stopToneRun>>
droneVars == <<droneNodes, drones, droneToggle>>
ambientVars == <<ambientSource, ambientBusy>>
pianoVars == <<pianoTimeout, timers, nextTimer, notes, pianoToggle, pianoNotes>>
pitchVars == <<pF, pAggressive, pOut, pDone>>
\* what the interaction-sound operations leave alone
fadeVars == <<fadePhase, fadeCase, gainEvents, sourceStops, stopCall>>
appSoundVars == <<uiActive, stopFns>>
appVars == <<mode, isPlaying, appFrequency, appSoundVars>>
otherVars == <<toneVars, ambientVars, droneVars, pianoVars, pitchVars, fadeVars, appVars>>
vars == <<envVars, ctxVars, loadVars, chanVars, thrown, otherVars>>

\* ------------------------------------------------------------ pitch mapper
Max(a, b) == IF a >= b THEN a ELSE b
Min(a, b) == IF a <= b THEN a ELSE b

RECURSIVE SqrtSearch(_, _, _)
SqrtSearch(n, lo, hi) ==
    IF lo >= hi THEN lo
    ELSE LET mid == (lo + hi + 1) \div 2
         IN  IF mid * mid <= n THEN SqrtSearch(n, mid, hi)
                               ELSE SqrtSearch(n, lo, mid - 1)

\* Math.sqrt on a ratio given in millionths, result in thousandths, rounded down
MathSqrt(ratio6) == SqrtSearch(ratio6, 0, Min(ratio6, 4000))

\* tinnitusFreq / baseFreq in millionths, rounded down
Ratio6(tinnitusFreq, baseFreq) ==
    ((tinnitusFreq * 1000) \div baseFreq) * 1000
        + (((tinnitusFreq * 1000) % baseFreq) * 1000) \div baseFreq

calculatePitch_SwappedClamp(tinnitusFreq, baseFreq, aggressive) ==
    LET ratio6 == Ratio6(tinnitusFreq, baseFreq)
    IN  IF aggressive
        THEN Min(AggressiveMin, Max(AggressiveMax, ratio6 \div 1000))
        ELSE Min(DampedMin, Max(DampedMax, MathSqrt(ratio6)))

calculatePitch_NarrowDamping(tinnitusFreq, baseFreq, aggressive) ==
    LET ratio6 == Ratio6(tinnitusFreq, baseFreq)
    IN  IF aggressive
        THEN Max(AggressiveMin, Min(AggressiveMax, ratio6 \div 1000))
        ELSE Max(800, Min(DampedMax, MathSqrt(ratio6)))

calculatePitch(tinnitusFreq, baseFreq, aggressive) ==
    LET ratio6 == Ratio6(tinnitusFreq, baseFreq)
    IN  IF aggressive
        THEN Max(AggressiveMin, Min(AggressiveMax, ratio6 \div 1000))
        ELSE Max(DampedMin, Min(DampedMax, MathSqrt(ratio6)))

\* ------------------------------------------------- per-category branches
\* The source nodes each branch of playInteractionSound calls start(t) on.
StartedSources_LfoForgotten(type, sampled) ==
    IF sampled THEN {"src"}
    ELSE CASE type = "BIRD"   -> {"carrier", "modulator"}
           [] type = "LEAVES" -> {"noiseSrc"}
           [] type = "INSECT" -> {"carrier"}
           [] OTHER           -> {"noiseSrc"}

StartedSources(type, sampled) ==
    IF sampled THEN {"src"}
    ELSE CASE type = "BIRD"   -> {"carrier", "modulator"}
           [] type = "LEAVES" -> {"noiseSrc", "lfo"}
           [] type = "INSECT" -> {"carrier", "modulator"}
           [] OTHER           -> {"noiseSrc"}

\* The source nodes the branch's internalStop calls stop(...) on.
StopTargets_LfoLeftRunning(type, sampled) ==
    IF sampled THEN {"src"}
    ELSE CASE type = "BIRD"   -> {}
           [] type = "LEAVES" -> {"noiseSrc"}
           [] type = "INSECT" -> {"carrier", "modulator"}
           [] OTHER           -> {"noiseSrc"}

StopTargets(type, sampled) ==
    IF sampled THEN {"src"}
    ELSE CASE type = "BIRD"   -> {}
           [] type = "LEAVES" -> {"noiseSrc", "lfo"}
           [] type = "INSECT" -> {"carrier", "modulator"}
           [] OTHER           -> {"noiseSrc"}

\* The source nodes the start call itself schedules a stop for: the two
\* oscillators of the BIRD fallback (carrier.stop(t + 0.5), modulator.stop(t + 0.5)).
StopsAtStart(type, sampled) ==
    IF type = "BIRD" /\ ~sampled THEN {"carrier", "modulator"} ELSE {}

\* AudioScheduledSourceNode.stop throws InvalidStateError on a node that was
\* never started; only the sampled BIRD branch wraps its stop in try/catch.
InternalStopThrows(type, sampled) ==
    /\ StopTargets(type, sampled) \ StartedSources(type, sampled) # {}
    /\ ~(type = "BIRD" /\ sampled)

\* createSource: a buffer source iff the category's buffer was decoded.
createSource_Preloaded(buffer) == TRUE

createSource(buffer) == buffer

\* Array.from(this.activeSounds).some(t => t !== 'RAIN')
OthersPlaying(as) == \E t \in as : t # "RAIN"

\* startVol of the RAIN branch (sampled: 0.05/0.15, fallback: 0.03/0.08)
RainStartVol(sampled, as) ==
    IF sampled
    THEN (IF OthersPlaying(as) THEN RainDuckedVol ELSE RainBaseVol)
    ELSE (IF OthersPlaying(as) THEN RainSynthDuckedVol ELSE RainSynthBaseVol)

\* The value of the automation event the start call adds last to the channel's gain.
StartTarget(type, sampled, as) ==
    CASE type = "RAIN"   -> RainStartVol(sampled, as)
      [] type = "BIRD"   -> IF sampled THEN 0 ELSE 1
      [] type = "LEAVES" -> IF sampled THEN 600 ELSE 150
      [] type = "WIND"   -> IF sampled THEN 800 ELSE 250
      [] type = "WATER"  -> IF sampled THEN 700 ELSE 300
      [] type = "INSECT" -> IF sampled THEN 500 ELSE 50

\* playbackRate of a sampled channel; Math.random() is rnd thousandths
SampleRate(type, tinnitusFreq, rnd) ==
    LET rate == calculatePitch(tinnitusFreq, BaseFreq, type \in AggressiveIds)
    IN  CASE type = "LEAVES" -> (rate * (900 + (rnd * 200) \div 1000)) \div 1000
          [] type = "WATER"  -> (rate * (950 + (rnd * 100) \div 1000)) \div 1000
          [] OTHER           -> rate

\* Filter cutoff (noise categories) or carrier frequency (BIRD, INSECT) of a
\* synthesized channel, in Hz.
SynthParam(type, tinnitusFreq) ==
    CASE type = "BIRD"   -> 2000
      [] type = "LEAVES" -> 1200
      [] type = "WIND"   -> 300
      [] type = "WATER"  -> 150
      [] type = "RAIN"   -> 800
      [] type = "INSECT" -> IF tinnitusFreq > 0 THEN tinnitusFreq ELSE 6000

\* updateRainDynamics: re-target the gain rainGainNode refers to.
updateRainDynamics_NoDuck(ch, rgn, as, c) ==
    IF rgn = Null \/ c = "null" THEN ch
    ELSE [ch EXCEPT ![rgn].target = RainBaseVol]

updateRainDynamics(ch, rgn, as, c) ==
    IF rgn = Null \/ c = "null" THEN ch
    ELSE [ch EXCEPT ![rgn].target =
              IF OthersPlaying(as) THEN RainDuckedVol ELSE RainBaseVol]

\* Has ducking been evaluated for the set as: the gain rainGainNode refers to
\* (if any) has the target updateRainDynamics schedules for as.
DuckingEvaluated(ch, rgn, as) ==
    rgn = Null \/ ch[rgn].target = (IF OthersPlaying(as) THEN RainDuckedVol ELSE RainBaseVol)


\* --------------------------------------------------------------- init()
\* new AudioContext() throws when the platform offers no audio context.
InitThrows == ctx = "null" /\ ~deviceAvailable

init_Recreates ==
    /\ ~InitThrows
    /\ ctx' \in {"running", "suspended"}
    /\ masterGain' = TRUE
    /\ created' = created + 1

\* if (!this.ctx) { create the context and the master gain };
\* if (this.ctx.state === 'suspended') this.ctx.resume(): the platform grants
\* the resume or leaves the context suspended.
init ==
    /\ ~InitThrows
    /\ IF ctx = "null"
       THEN /\ ctx' \in {"running", "suspended"}
            /\ masterGain' = TRUE
            /\ created' = created + 1
       ELSE /\ ctx' \in {ctx, "running"}
            /\ UNCHANGED <<masterGain, created>>

InitCall ==
    /\ IF InitThrows
       THEN /\ thrown' = TRUE
            /\ UNCHANGED <<ctxVars>>
       ELSE /\ init
            /\ UNCHANGED thrown
    /\ justPlayed' = Null
    /\ UNCHANGED <<envVars, loadVars, activeSounds, rainGainNode, chan, otherVars>>

\* ---------------------------------------------------- loadAmbientTrack()
AssetOrder == <<"BIRD", "WIND", "LEAVES", "WATER", "RAIN", "INSECT">>
PathsToTry == 1 .. 3
\* What one attempt (fetch, arrayBuffer, decodeAudioData of one path) comes to.
Outcomes == {"ok", "notOk", "fetchThrows", "decodeThrows"}

loadBuffer_NoCatch(outs) ==
    IF outs[1] = "ok" THEN "decoded"
    ELSE IF outs[1] \in {"fetchThrows", "decodeThrows"} THEN "throws"
    ELSE IF \E i \in PathsToTry : outs[i] = "ok" THEN "decoded" ELSE "null"

\* loadBuffer: the first path that fetches and decodes wins; a failed fetch, a
\* response that is not ok and a failed decode all fall through to the next path.
loadBuffer(outs) ==
    IF \E i \in PathsToTry : outs[i] = "ok" THEN "decoded" ELSE "null"

\* The call: init(), the guard, and the first loadBuffer call up to its first await.
LoadAmbientTrack ==
    /\ loadPc = 0
    /\ IF InitThrows
       THEN /\ loadPc' = -1
            /\ thrown' = TRUE
            /\ UNCHANGED <<ctxVars, attempted>>
       ELSE /\ init
            /\ loadPc' = 1
            /\ attempted' = {AssetOrder[1]}
            /\ UNCHANGED thrown
    /\ justPlayed' = Null
    /\ UNCHANGED <<envVars, buffers, activeSounds, rainGainNode, chan, otherVars>>

\* The awaited loadBuffer of asset loadPc settles; the buffer field is assigned
\* and the next loadBuffer call starts (or the routine completes).
LoadResumeWith(outcomes) ==
    /\ loadPc \in 1 .. 6
    /\ \E outs \in [PathsToTry -> outcomes] :
         LET a == AssetOrder[loadPc]
             r == loadBuffer(outs)
         IN  /\ (a \in missing) <=> (\A i \in PathsToTry : outs[i] # "ok")
             /\ IF r = "throws"
                THEN /\ loadPc' = -1
                     /\ UNCHANGED <<buffers, attempted>>
                ELSE /\ buffers' = [buffers EXCEPT ![a] = (r = "decoded")]
                     /\ loadPc' = loadPc + 1
                     /\ attempted' = IF loadPc < 6
                                     THEN attempted \cup {AssetOrder[loadPc + 1]}
                                     ELSE attempted
    /\ justPlayed' = Null
    /\ UNCHANGED <<envVars, ctxVars, activeSounds, rainGainNode, chan,
                   thrown, otherVars>>

LoadResume == LoadResumeWith(Outcomes)

\* ------------------------------------------------ playInteractionSound()
NewChannel(type, sampled, tinnitusFreq, hasCb, rnd, as) ==
    [id        |-> type,
     sampled   |-> sampled,
     freq      |-> tinnitusFreq,
     param     |-> IF sampled THEN SampleRate(type, tinnitusFreq, rnd)
                              ELSE SynthParam(type, tinnitusFreq),
     target    |-> StartTarget(type, sampled, as),
     phase     |-> "playing",
     running   |-> StartedSources(type, sampled),
     scheduled |-> StopsAtStart(type, sampled),
     stopCalls |-> 0,
     immStop   |-> FALSE,
     hasCb     |-> hasCb /\ type = "BIRD",   \* only BIRD's end handlers use onEnded
     cbCalls   |-> 0,
     cbActive  |-> FALSE,
     cbDucked  |-> FALSE]

\* activeSounds after the call's add
PlayAdd(as, type) == as \cup {type}

\* this.rainGainNode = gain in the RAIN branch, before 'if (src)'
RainReference_FirstKept(type, c, rgn) ==
    IF type = "RAIN" /\ rgn = Null THEN c ELSE rgn

RainReference(type, c, rgn) == IF type = "RAIN" THEN c ELSE rgn

\* the engine's sound fields, as the record the operations below transform
Engine == [as |-> activeSounds, chan |-> chan, rgn |-> rainGainNode]

\* playInteractionSound past init() and its guard: add, updateRainDynamics,
\* then the branch of the category builds the channel
PlayFields(e, type, tinnitusFreq, hasCb, rnd) ==
    LET c == Len(e.chan) + 1
        as1 == PlayAdd(e.as, type)
        ch1 == updateRainDynamics(e.chan, e.rgn, as1, "running")
        sampled == createSource(buffers[type])
    IN  [as   |-> as1,
         chan |-> Append(ch1, NewChannel(type, sampled, tinnitusFreq, hasCb, rnd, as1)),
         rgn  |-> RainReference(type, c, e.rgn)]

Play(type, tinnitusFreq, hasCb, rnd) ==
    /\ IF InitThrows
       THEN /\ thrown' = TRUE
            /\ justPlayed' = Null
            /\ UNCHANGED <<ctxVars, activeSounds, rainGainNode, chan>>
       ELSE LET e == PlayFields(Engine, type, tinnitusFreq, hasCb, rnd)
            IN  /\ init
                /\ activeSounds' = e.as
                /\ chan' = e.chan
                /\ rainGainNode' = e.rgn
                /\ justPlayed' = Len(e.chan)
                /\ UNCHANGED thrown
    /\ UNCHANGED <<envVars, loadVars, otherVars>>

\* ------------------------------------------------------------- stopFn()
\* internalStop of channel c: the fade-out is scheduled and the sources are
\* asked to stop (the synthesized BIRD assigns no internalStop).
InternalStopChan_CallsBack(ch, c) ==
    IF ch[c].id = "BIRD" /\ ~ch[c].sampled THEN ch
    ELSE [ch EXCEPT ![c].target = 0,
                    ![c].scheduled = @ \cup StopTargets(ch[c].id, ch[c].sampled),
                    ![c].phase = IF @ = "playing" THEN "stopping" ELSE @,
                    ![c].cbCalls = @ + 1]

InternalStopChan(ch, c) ==
    IF ch[c].id = "BIRD" /\ ~ch[c].sampled THEN ch
    ELSE [ch EXCEPT ![c].target = 0,
                    ![c].scheduled = @ \cup StopTargets(ch[c].id, ch[c].sampled),
                    ![c].phase = IF @ = "playing" THEN "stopping" ELSE @]

\* this.rainGainNode = null in both RAIN branches' internalStop
InternalStopRain_Kept(ch, c, rgn) == rgn

InternalStopRain(ch, c, rgn) == IF ch[c].id = "RAIN" THEN Null ELSE rgn

\* activeSounds after stopFn's delete
StopDelete_Forgotten(as, type) == as

StopDelete(as, type) == as \ {type}

\* the call of channel c's stop handle is counted (imm: right after its start)
Counted(ch, c, imm) ==
    [ch EXCEPT ![c].stopCalls = @ + 1, ![c].immStop = @ \/ imm]

\* stopFn when internalStop does not throw: internalStop, delete,
\* updateRainDynamics
StopFields(e, c, imm) ==
    LET ch1 == InternalStopChan(Counted(e.chan, c, imm), c)
        rgn1 == InternalStopRain(e.chan, c, e.rgn)
        as1 == StopDelete(e.as, e.chan[c].id)
    IN  [as |-> as1, chan |-> updateRainDynamics(ch1, rgn1, as1, ctx), rgn |-> rgn1]

StopFn(c) ==
    /\ c \in 1 .. Len(chan)
    /\ IF InternalStopThrows(chan[c].id, chan[c].sampled)
       THEN /\ chan' = Counted(chan, c, justPlayed = c)
            /\ thrown' = TRUE
            /\ UNCHANGED <<activeSounds, rainGainNode>>
       ELSE LET e == StopFields(Engine, c, justPlayed = c)
            IN  /\ activeSounds' = e.as
                /\ rainGainNode' = e.rgn
                /\ chan' = e.chan
                /\ UNCHANGED thrown
    /\ justPlayed' = Null
    /\ UNCHANGED <<envVars, ctxVars, loadVars, otherVars>>

\* ----------------------------------------------------------- end events
\* The handler shared by src.onended (sampled BIRD) and the 500 ms timer
\* (synthesized BIRD): delete, updateRainDynamics, then onEnded if given.
\* cbActive and cbDucked record what the callback finds when it runs.
EndHandler_CallbackFirst(ch, c, rgn, as) ==
    LET as1 == as \ {ch[c].id}
        ch1 == updateRainDynamics(ch, rgn, as1, ctx)
    IN  [as |-> as1,
         chan |-> IF ch[c].hasCb
                  THEN [ch1 EXCEPT ![c].cbCalls = @ + 1,
                                   ![c].cbActive = ch[c].id \in as,
                                   ![c].cbDucked = DuckingEvaluated(ch, rgn, as1)]
                  ELSE ch1]

EndHandler(ch, c, rgn, as) ==
    LET as1 == as \ {ch[c].id}
        ch1 == updateRainDynamics(ch, rgn, as1, ctx)
    IN  [as |-> as1,
         chan |-> IF ch[c].hasCb
                  THEN [ch1 EXCEPT ![c].cbCalls = @ + 1,
                                   ![c].cbActive = ch[c].id \in as1,
                                   ![c].cbDucked = DuckingEvaluated(ch1, rgn, as1)]
                  ELSE ch1]

\* the sources of channel c have come to their end: the sampled BIRD's buffer
\* source, or the oscillators the BIRD fallback scheduled a stop for
EndedChannel(ch, c) ==
    [ch EXCEPT ![c].phase = "ended",
               ![c].running = IF ch[c].sampled THEN {} ELSE @ \ ch[c].scheduled]

\* may the end event of BIRD channel c fire?
EndEventDue(ch, c) ==
    /\ c \in 1 .. Len(ch)
    /\ ch[c].id = "BIRD"
    /\ ch[c].phase \in (IF ch[c].sampled THEN {"playing", "stopping"} ELSE {"playing"})

\* src.onended of a sampled BIRD: the buffer played to its end, or the stop
\* scheduled by internalStop took effect.
OnEnded(c) ==
    /\ c \in 1 .. Len(chan)
    /\ chan[c].id = "BIRD" /\ chan[c].sampled
    /\ chan[c].phase \in {"playing", "stopping"}
    /\ LET r == EndHandler(EndedChannel(chan, c), c, rainGainNode, activeSounds)
       IN  /\ activeSounds' = r.as
           /\ chan' = r.chan
    /\ justPlayed' = Null
    /\ UNCHANGED <<envVars, ctxVars, rainGainNode, loadVars, thrown, otherVars>>

\* The setTimeout(..., 500) of a synthesized BIRD fires (its oscillators were
\* scheduled to stop at t + 0.5 by the start call itself).
BirdTimeout(c) ==
    /\ c \in 1 .. Len(chan)
    /\ chan[c].id = "BIRD" /\ ~chan[c].sampled
    /\ chan[c].phase = "playing"
    /\ LET r == EndHandler(EndedChannel(chan, c), c, rainGainNode, activeSounds)
       IN  /\ activeSounds' = r.as
           /\ chan' = r.chan
    /\ justPlayed' = Null
    /\ UNCHANGED <<envVars, ctxVars, rainGainNode, loadVars, thrown, otherVars>>

\* The stop time scheduled by internalStop is reached: the sources of a looping
\* channel stop.  No handler of the engine is attached to this event.
SourceStopped(c) ==
    /\ c \in 1 .. Len(chan)
    /\ chan[c].id # "BIRD"
    /\ chan[c].phase = "stopping"
    /\ chan' = [chan EXCEPT ![c].phase = "ended",
                           ![c].running = @ \ chan[c].scheduled]
    /\ justPlayed' = Null
    /\ UNCHANGED <<envVars, ctxVars, activeSounds, rainGainNode, loadVars,
                   thrown, otherVars>>

\* ------------------------------------------------------ calibration tone
\* stopTinnitusTone: the body, as a function of the three tone fields.
StopToneFields_OscKept(osc, gain, ts) ==
    LET ts1 == IF gain # Null /\ ctx # "null"
               THEN [ts EXCEPT ![gain].gainTarget = 1]
               ELSE ts
        ts2 == IF osc # Null
               THEN [ts1 EXCEPT ![osc].stops = @ + 1]
               ELSE ts1
    IN  [osc |-> osc, gain |-> gain, tones |-> ts2]

StopToneFields(osc, gain, ts) ==
    LET ts1 == IF gain # Null /\ ctx # "null"
               THEN [ts EXCEPT ![gain].gainTarget = 1]
               ELSE ts
        ts2 == IF osc # Null
               THEN [ts1 EXCEPT ![osc].stops = @ + 1]
               ELSE ts1
    IN  [osc |-> Null, gain |-> gain, tones |-> ts2]

\* this.tinnitusOsc.stop(this.ctx!.currentTime + 0.6) reads currentTime of ctx
StopToneThrows == tinnitusOsc # Null /\ ctx = "null"

\* startTinnitusTone: if (this.tinnitusOsc) this.stopTinnitusTone()
Supersede_Layering(osc, gain, ts) == [osc |-> osc, gain |-> gain, tones |-> ts]

Supersede(osc, gain, ts) ==
    IF osc # Null
    THEN StopToneFields(osc, gain, ts)
    ELSE [osc |-> osc, gain |-> gain, tones |-> ts]

\* the fields after startTinnitusTone's body: a live tone is stopped first,
\* then a new oscillator and gain node replace the references
StartToneFields(osc, gain, ts, frequency, vol) ==
    LET st == Supersede(osc, gain, ts)
        n == Len(ts) + 1
    IN  [osc |-> n, gain |-> n,
         tones |-> Append(st.tones, [freq |-> frequency, gainTarget |-> vol,
                                     stops |-> 0, retuned |-> FALSE])]

StartTinnitusTone(frequency, vol) ==
    /\ IF InitThrows
       THEN /\ thrown' = TRUE
            /\ UNCHANGED <<ctxVars, tinnitusOsc, tinnitusGain, tones>>
       ELSE LET st == StartToneFields(tinnitusOsc, tinnitusGain, tones, frequency, vol)
            IN  /\ init
                /\ tones' = st.tones
                /\ tinnitusOsc' = st.osc
                /\ tinnitusGain' = st.gain
                /\ UNCHANGED thrown
    /\ stopToneRun' = 0
    /\ justPlayed' = Null
    /\ UNCHANGED <<envVars, loadVars, activeSounds, rainGainNode, chan,
                   ambientVars, droneVars, pianoVars, pitchVars, fadeVars, appVars>>

\* if (this.tinnitusOsc && this.ctx) frequency.setTargetAtTime(...): the
\* tones afterwards
Retune_LastTone(osc, c, ts, frequency) ==
    IF ts # <<>> /\ c # "null"
    THEN [ts EXCEPT ![Len(ts)].freq = frequency, ![Len(ts)].retuned = TRUE]
    ELSE ts

Retune(osc, c, ts, frequency) ==
    IF osc # Null /\ c # "null"
    THEN [ts EXCEPT ![osc].freq = frequency, ![osc].retuned = TRUE]
    ELSE ts

UpdateTinnitusFreq(frequency) ==
    /\ tones' = Retune(tinnitusOsc, ctx, tones, frequency)
    /\ stopToneRun' = 0
    /\ justPlayed' = Null
    /\ UNCHANGED <<envVars, ctxVars, loadVars, activeSounds, rainGainNode, chan,
                   thrown, tinnitusOsc, tinnitusGain, ambientVars, droneVars,
                   pianoVars, pitchVars, fadeVars, appVars>>

StopTinnitusTone(record) ==
    /\ IF StopToneThrows
       THEN /\ thrown' = TRUE
            /\ UNCHANGED <<tinnitusOsc, tinnitusGain, tones>>
       ELSE LET st == StopToneFields(tinnitusOsc, tinnitusGain, tones)
            IN  /\ tinnitusOsc' = st.osc
                /\ tinnitusGain' = st.gain
                /\ tones' = st.tones
                /\ UNCHANGED thrown
    /\ stopToneRun' = (IF record THEN stopToneRun + 1 ELSE stopToneRun)
    /\ justPlayed' = Null
    /\ UNCHANGED <<envVars, ctxVars, loadVars, activeSounds, rainGainNode, chan,
                   ambientVars, droneVars, pianoVars, pitchVars, fadeVars, appVars>>

\* ------------------------------------------------------ startAmbientTrack
\* Are an interaction sound, the drone and the sequencer on, all three?
AllSounding ==
    /\ activeSounds # {}
    /\ droneNodes # Null
    /\ pianoTimeout # Null

\* "Background drone is handled manually by toggleDrone logic now": the body
\* of startAmbientTrack has no statement on droneNodes.
AmbientDrone_Reset(dn) == Null

AmbientDrone(dn) == dn

StartAmbientTrack(tinnitusFreq) ==
    /\ IF InitThrows
       THEN /\ thrown' = TRUE
            /\ UNCHANGED <<ctxVars, ambientSource, droneNodes>>
       ELSE /\ init
            /\ ambientSource' = Null
            /\ droneNodes' = AmbientDrone(droneNodes)
            /\ UNCHANGED thrown
    /\ ambientBusy' = (ambientBusy \/ AllSounding)
    /\ justPlayed' = Null
    /\ UNCHANGED <<envVars, loadVars, activeSounds, rainGainNode, chan,
                   toneVars, drones, droneToggle, pianoVars, pitchVars, fadeVars, appVars>>

\* ------------------------------------------------------------------ drone
\* The caller's record of its toggle calls: the direction of the last call and
\* how many calls in that direction were made in a row (n = 0: none yet).
Bump(toggle, on, record) ==
    IF ~record THEN toggle
    ELSE IF toggle.n > 0 /\ toggle.on = on
    THEN [toggle EXCEPT !.n = @ + 1]
    ELSE [on |-> on, n |-> 1]

\* this.droneNodes.length > 0
DroneIsOn_Never(dn) == FALSE

DroneIsOn(dn) == dn # Null

\* startDrone builds its own oscillators under droneMaster; it has no
\* statement on activeSounds.
DroneSounds_Registered(as) == as \cup {"DRONE"}

DroneSounds(as) == as

\* toggleDrone(true): startDrone
StartDrone(record) ==
    /\ IF DroneIsOn(droneNodes)
       THEN UNCHANGED <<ctxVars, thrown, droneNodes, drones>>
       ELSE IF InitThrows
       THEN /\ thrown' = TRUE
            /\ UNCHANGED <<ctxVars, droneNodes, drones>>
       ELSE /\ init
            /\ drones' = Append(drones, [phase |-> "on", pending |-> 0, released |-> 0,
                                         overlap |-> \E d \in 1 .. Len(drones) :
                                                        drones[d].pending > 0])
            /\ droneNodes' = Len(drones) + 1
            /\ UNCHANGED thrown
    /\ activeSounds' = DroneSounds(activeSounds)
    /\ droneToggle' = Bump(droneToggle, TRUE, record)
    /\ justPlayed' = Null
    /\ UNCHANGED <<envVars, loadVars, rainGainNode, chan,
                   toneVars, ambientVars, pianoVars, pitchVars, fadeVars, appVars>>

\* this.droneNodes = [] at the end of stopDrone's guarded block
StopDroneNodes_Kept(dn) == dn

StopDroneNodes(dn) == Null

\* toggleDrone(false): stopDrone
StopDrone(record) ==
    /\ IF DroneIsOn(droneNodes) /\ ctx # "null"
       THEN /\ drones' = [drones EXCEPT ![droneNodes].phase = "fading",
                                        ![droneNodes].pending = @ + 1]
            /\ droneNodes' = StopDroneNodes(droneNodes)
       ELSE UNCHANGED <<droneNodes, drones>>
    /\ droneToggle' = Bump(droneToggle, FALSE, record)
    /\ justPlayed' = Null
    /\ UNCHANGED <<envVars, ctxVars, loadVars, activeSounds, rainGainNode, chan,
                   thrown, toneVars, ambientVars, pianoVars, pitchVars, fadeVars, appVars>>

\* The timer's callback iterates nodesToStop, the array stopDrone captured
\* (instance d), not the array this.droneNodes holds when it runs (dn).
TeardownNodes_Current(ds, d, dn) ==
    LET e == IF dn # Null THEN dn ELSE d
    IN  [[ds EXCEPT ![d].pending = @ - 1]
            EXCEPT ![e].phase = "released", ![e].released = @ + 1]

TeardownNodes(ds, d, dn) ==
    [ds EXCEPT ![d].phase = "released",
               ![d].pending = @ - 1,
               ![d].released = @ + 1]

\* the 1600 ms timer of stopDrone fires for instance d
DroneTeardown(d) ==
    /\ d \in 1 .. Len(drones)
    /\ drones[d].pending > 0
    /\ drones' = TeardownNodes(drones, d, droneNodes)
    /\ justPlayed' = Null
    /\ UNCHANGED <<envVars, ctxVars, loadVars, activeSounds, rainGainNode, chan,
                   thrown, toneVars, ambientVars, droneNodes, droneToggle, pianoVars, pitchVars, fadeVars, appVars>>

\* -------------------------------------------------------------- sequencer
\* G minor pentatonic, in hundredths of a hertz
Scale == <<19600, 23308, 26163, 29366, 34923, 39200, 46616>>

\* scale[Math.floor(Math.random() * scale.length)]; rnd is Math.random() in
\* thousandths
ScaleFreq(rnd) == Scale[(rnd * Len(Scale)) \div 1000 + 1]

\* const nextTime = 2000 + Math.random() * 3000, in ms rounded down
NextTime_FromZero(rnd) == (rnd * 5000) \div 1000

NextTime(rnd) == 2000 + (rnd * 3000) \div 1000

\* Math.random() where a specification does not vary it: for the pitch and
\* for the delay
MidRandom == {[note |-> 500, next |-> 500]}

\* playNextPianoNote, as a function of the timer fields left by the caller;
\* after is the delay of the timer that called it (0: called by startPiano).
\* The note's oscillator is told to stop 4.5 s after its start.
PlayNextPianoNote(pending, after, rnd) ==
    IF ctx' = "null" \/ ~masterGain'
    THEN /\ timers' = pending
         /\ UNCHANGED <<pianoTimeout, nextTimer, notes, pianoNotes>>
    ELSE /\ notes' = notes + 1
         /\ pianoNotes' = Append(pianoNotes,
                                 [freq    |-> ScaleFreq(rnd.note),
                                  after   |-> after,
                                  timer   |-> nextTimer,
                                  next    |-> NextTime(rnd.next),
                                  release |-> 4500,
                                  phase   |-> "sounding"])
         /\ pianoTimeout' = nextTimer
         /\ timers' = pending \cup {nextTimer}
         /\ nextTimer' = nextTimer + 1

\* if (this.pianoTimeout) return
PianoIsOn_Never(pt) == FALSE

PianoIsOn(pt) == pt # Null

\* togglePiano(true): startPiano
StartPiano(record, rnd) ==
    /\ IF PianoIsOn(pianoTimeout)
       THEN UNCHANGED <<ctxVars, thrown, pianoTimeout, timers, nextTimer, notes, pianoNotes>>
       ELSE IF InitThrows
       THEN /\ thrown' = TRUE
            /\ UNCHANGED <<ctxVars, pianoTimeout, timers, nextTimer, notes, pianoNotes>>
       ELSE /\ init
            /\ PlayNextPianoNote(timers, 0, rnd)
            /\ UNCHANGED thrown
    /\ pianoToggle' = Bump(pianoToggle, TRUE, record)
    /\ justPlayed' = Null
    /\ UNCHANGED <<envVars, loadVars, activeSounds, rainGainNode, chan,
                   toneVars, ambientVars, droneVars, pitchVars, fadeVars, appVars>>

\* window.clearTimeout(id): the pending timers afterwards
ClearTimeout_Forgotten(ts, id) == ts

ClearTimeout(ts, id) == ts \ {id}

\* stopPiano has no statement on the notes already started (pianoNodes is
\* never iterated): their oscillators keep the stop they were given.
StopPianoNotes_HardMute(ns) == [i \in DOMAIN ns |-> [ns[i] EXCEPT !.release = 0]]

StopPianoNotes(ns) == ns

\* togglePiano(false): stopPiano
StopPiano(record) ==
    /\ IF PianoIsOn(pianoTimeout)
       THEN /\ timers' = ClearTimeout(timers, pianoTimeout)
            /\ pianoTimeout' = Null
       ELSE UNCHANGED <<pianoTimeout, timers>>
    /\ pianoNotes' = StopPianoNotes(pianoNotes)
    /\ pianoToggle' = Bump(pianoToggle, FALSE, record)
    /\ justPlayed' = Null
    /\ UNCHANGED <<envVars, ctxVars, loadVars, activeSounds, rainGainNode, chan,
                   thrown, toneVars, ambientVars, droneVars, nextTimer, notes, pitchVars, fadeVars, appVars>>

\* the delay window.setTimeout was given for timer id
TimerDelay(id) ==
    LET n == CHOOSE i \in 1 .. Len(pianoNotes) : pianoNotes[i].timer = id
    IN  pianoNotes[n].next

\* a pending sequencer timer fires: playNextPianoNote
PianoTimerFires(id, rnd) ==
    /\ id \in timers
    /\ UNCHANGED <<ctxVars>>
    /\ PlayNextPianoNote(timers \ {id}, TimerDelay(id), rnd)
    /\ justPlayed' = Null
    /\ UNCHANGED <<envVars, loadVars, activeSounds, rainGainNode, chan,
                   thrown, toneVars, ambientVars, droneVars, pianoToggle, pitchVars, fadeVars, appVars>>

\* osc.stop(t + 4.5) takes effect on note n: onended disconnects its nodes
NoteEnded(n) ==
    /\ n \in 1 .. Len(pianoNotes)
    /\ pianoNotes[n].phase = "sounding"
    /\ pianoNotes' = [pianoNotes EXCEPT ![n].phase = "released"]
    /\ justPlayed' = Null
    /\ UNCHANGED <<envVars, ctxVars, loadVars, activeSounds, rainGainNode, chan,
                   thrown, toneVars, ambientVars, droneVars, pianoTimeout, timers,
                   nextTimer, notes, pianoToggle, pitchVars, fadeVars, appVars>>

\* -------------------------------------------------------- gain automation
\* The schedule one operation leaves on the gain it owns and on its source
\* nodes. Times are in ms; gains in thousandths.
Event(kind, value, time, by) ==
    [kind |-> kind, value |-> value, time |-> time, by |-> by]

\* An AudioParam keeps its events in time order; a new event goes after the
\* events already scheduled for the same time.
Schedule(events, e) ==
    SelectSeq(events, LAMBDA x : x.time <= e.time) \o <<e>>
        \o SelectSeq(events, LAMBDA x : x.time > e.time)

\* AudioParam.cancelScheduledValues(t) removes the events at or after t.
cancelScheduledValues(events, t) == SelectSeq(events, LAMBDA x : x.time < t)

fadeInOut_FadeAfterEnd(events, t, duration, loop, fadeTime, targetVol) ==
    LET up == Schedule(Schedule(events, Event("set", 0, t, "start")),
                       Event("lin", targetVol, t + fadeTime, "start"))
    IN  IF ~loop /\ duration > 0
        THEN Schedule(Schedule(up, Event("set", targetVol, t + duration, "start")),
                      Event("lin", 0, t + duration + fadeTime, "start"))
        ELSE up

fadeInOut(events, t, duration, loop, fadeTime, targetVol) ==
    LET up == Schedule(Schedule(events, Event("set", 0, t, "start")),
                       Event("lin", targetVol, t + fadeTime, "start"))
    IN  IF ~loop /\ duration > 0
        THEN Schedule(Schedule(up, Event("set", targetVol, t + duration - fadeTime, "start")),
                      Event("lin", 0, t + duration, "start"))
        ELSE up

\* the operations that own a gain and stop it with a fade-out
FadeOps == Ids \cup {"DRONE", "TONE"}

\* the gain events the operation schedules when it starts at t
StartEvents(op, sampled, t, dur) ==
    LET rise(fadeTime, vol) ==
            Schedule(Schedule(<<>>, Event("set", 0, t, "start")),
                     Event("lin", vol, t + fadeTime, "start"))
    IN  CASE op = "BIRD" /\ sampled    -> fadeInOut(<<>>, t, dur, FALSE, 200, 700)
          [] op = "BIRD" /\ ~sampled   ->
                 Schedule(rise(50, 100), Event("exp", 1, t + 400, "start"))
          [] op = "LEAVES" /\ sampled  -> fadeInOut(<<>>, t, 0, TRUE, 300, 600)
          [] op = "LEAVES" /\ ~sampled -> fadeInOut(<<>>, t, 0, TRUE, 500, 150)
          [] op = "WIND" /\ sampled    -> fadeInOut(<<>>, t, 0, TRUE, 1000, 800)
          [] op = "WIND" /\ ~sampled   -> fadeInOut(<<>>, t, 0, TRUE, 2000, 250)
          [] op = "WATER" /\ sampled   -> fadeInOut(<<>>, t, 0, TRUE, 1500, 700)
          [] op = "WATER" /\ ~sampled  -> fadeInOut(<<>>, t, 0, TRUE, 2000, 300)
          [] op = "RAIN" /\ sampled    -> rise(800, RainBaseVol)
          [] op = "RAIN" /\ ~sampled   -> rise(1000, RainSynthBaseVol)
          [] op = "INSECT" /\ sampled  -> fadeInOut(<<>>, t, 0, TRUE, 300, 500)
          [] op = "INSECT" /\ ~sampled -> fadeInOut(<<>>, t, 0, TRUE, 500, 50)
          [] op = "DRONE"              -> <<Event("lin", 60, t + 4000, "start")>>
          [] op = "TONE"               -> rise(100, 100)

\* the stop(...) calls the operation makes on its sources when it starts at t
StartStops(op, sampled, t) ==
    IF op = "BIRD" /\ ~sampled
    THEN {[node |-> n, time |-> t + 500] : n \in {"carrier", "modulator"}}
    ELSE {}

\* Does the stop operation call cancelScheduledValues on the gain?
StopCancels(op, sampled) ==
    \/ op = "DRONE"
    \/ sampled /\ op \in Ids \ {"BIRD"}

\* Does the stop operation schedule a fade-out? (the synthesized BIRD leaves
\* internalStop as the empty function)
HasFadeOut(op, sampled) == ~(op = "BIRD" /\ ~sampled)

\* the length of the fade-out the stop operation schedules
FadeOutTime(op, sampled) ==
    CASE op = "BIRD"               -> 500
      [] op = "LEAVES" /\ sampled  -> 600
      [] op = "LEAVES" /\ ~sampled -> 500
      [] op = "WIND" /\ sampled    -> 1500
      [] op = "WIND" /\ ~sampled   -> 2000
      [] op = "WATER" /\ sampled   -> 1500
      [] op = "WATER" /\ ~sampled  -> 2000
      [] op = "RAIN" /\ sampled    -> 800
      [] op = "RAIN" /\ ~sampled   -> 1000
      [] op = "INSECT" /\ sampled  -> 500
      [] op = "INSECT" /\ ~sampled -> 300
      [] op = "DRONE"              -> 1500
      [] op = "TONE"               -> 500

\* the fade-out event: the calibration tone ramps exponentially to 0.001
FadeOutEvent(op, sampled, now) ==
    IF op = "TONE"
    THEN Event("exp", 1, now + FadeOutTime(op, sampled), "stop")
    ELSE Event("lin", 0, now + FadeOutTime(op, sampled), "stop")

\* how long after the stop operation the sources it stops are to stop
ReleaseTime(op, sampled) ==
    IF op = "BIRD" THEN 500 ELSE FadeOutTime(op, sampled) + 100

\* the source nodes the stop operation calls stop(...) on
StopSources(op, sampled) ==
    CASE op = "DRONE" -> {"osc1", "osc2", "osc3", "lfo"}
      [] op = "TONE"  -> {"osc"}
      [] OTHER        -> StopTargets(op, sampled)

InitFade ==
    /\ fadePhase = "idle"
    /\ fadeCase = [op |-> "none", sampled |-> FALSE, duration |-> 0, rate |-> 0,
                   loop |-> FALSE]
    /\ gainEvents = <<>>
    /\ sourceStops = {}
    /\ stopCall = [now |-> 0, fadeEnd |-> 0]

\* createSource(buffer, loop) / noiseSrc.loop = true: only BIRD plays once
\* (the oscillators of the other operations run until they are stopped)
SourceLoops(op) == op # "BIRD"

\* the operation starts at time 0: it builds the gain and schedules its rise;
\* duration is the buffer's, and the sampled BIRD passes duration / rate on
FadeStart(op, sampled, duration, tinnitusFreq) ==
    /\ fadePhase = "idle"
    /\ fadePhase' = "playing"
    /\ LET rate == calculatePitch(tinnitusFreq, BaseFreq, op \in AggressiveIds)
       IN  /\ fadeCase' = [op |-> op, sampled |-> sampled, duration |-> duration,
                           rate |-> rate, loop |-> SourceLoops(op)]
           /\ gainEvents' = StartEvents(op, sampled, 0, (duration * 1000) \div rate)
    /\ sourceStops' = StartStops(op, sampled, 0)
    /\ UNCHANGED <<envVars, ctxVars, loadVars, chanVars, thrown, toneVars,
                   ambientVars, droneVars, pianoVars, pitchVars, stopCall, appVars>>

\* the stop operation of the gain's owner runs at time now; fadeEnd is -1
\* when it schedules no fade-out
FadeStop(now) ==
    LET op == fadeCase.op
        sampled == fadeCase.sampled
        kept == IF StopCancels(op, sampled)
                THEN cancelScheduledValues(gainEvents, now)
                ELSE gainEvents
    IN  /\ fadePhase = "playing"
        /\ fadePhase' = "stopped"
        /\ gainEvents' = IF HasFadeOut(op, sampled)
                         THEN Schedule(kept, FadeOutEvent(op, sampled, now))
                         ELSE kept
        /\ sourceStops' = sourceStops \cup
               {[node |-> n, time |-> now + ReleaseTime(op, sampled)] :
                    n \in StopSources(op, sampled)}
        /\ stopCall' = [now |-> now,
                        fadeEnd |-> IF HasFadeOut(op, sampled)
                                    THEN now + FadeOutTime(op, sampled)
                                    ELSE -1]
        /\ UNCHANGED <<envVars, ctxVars, loadVars, chanVars, thrown, toneVars,
                       ambientVars, droneVars, pianoVars, pitchVars, fadeCase, appVars>>

\* ------------------------------------------------------------------ App
\* Each handler runs with the render that follows it: React commits the state
\* updates of a click, and runs the effects they trigger, before the next
\* event is handled.  Each screen offers only its own mode's controls.

\* useEffect(() => { if (isPlaying) audioEngine.updateTinnitusFreq(frequency) },
\*           [frequency, isPlaying])
FrequencyEffect(osc, c, ts, playing, f) ==
    IF playing THEN Retune(osc, c, ts, f) ELSE ts

\* what toggleTinnitusTone's setIsPlaying stores
ToggledFlag_Kept(playing) == playing

ToggledFlag(playing) == ~playing

\* "Begin Experience": audioEngine.init(); setMode(TUNING)
handleStart ==
    /\ mode = "INTRO"
    /\ IF InitThrows
       THEN /\ thrown' = TRUE
            /\ UNCHANGED <<ctxVars, mode>>
       ELSE /\ init
            /\ mode' = "TUNING"
            /\ UNCHANGED thrown
    /\ justPlayed' = Null
    /\ UNCHANGED <<envVars, loadVars, activeSounds, rainGainNode, chan, toneVars,
                   ambientVars, droneVars, pianoVars, pitchVars, fadeVars,
                   isPlaying, appFrequency, appSoundVars>>

\* The play button of the tuning panel.
toggleTinnitusTone(maxTones) ==
    /\ mode = "TUNING"
    /\ isPlaying \/ Len(tones) < maxTones
    /\ IF isPlaying
       THEN IF StopToneThrows
            THEN /\ thrown' = TRUE
                 /\ UNCHANGED <<ctxVars, tinnitusOsc, tinnitusGain, tones, isPlaying>>
            ELSE LET st == StopToneFields(tinnitusOsc, tinnitusGain, tones)
                 IN  /\ tinnitusOsc' = st.osc
                     /\ tinnitusGain' = st.gain
                     /\ isPlaying' = ToggledFlag(isPlaying)
                     /\ tones' = FrequencyEffect(st.osc, ctx, st.tones, isPlaying', appFrequency)
                     /\ UNCHANGED <<ctxVars, thrown>>
       ELSE IF InitThrows
            THEN /\ thrown' = TRUE
                 /\ UNCHANGED <<ctxVars, tinnitusOsc, tinnitusGain, tones, isPlaying>>
            ELSE LET st == StartToneFields(tinnitusOsc, tinnitusGain, tones, appFrequency, 100)
                 IN  /\ init
                     /\ tinnitusOsc' = st.osc
                     /\ tinnitusGain' = st.gain
                     /\ isPlaying' = ToggledFlag(isPlaying)
                     /\ tones' = FrequencyEffect(st.osc, ctx', st.tones, isPlaying', appFrequency)
                     /\ UNCHANGED thrown
    /\ justPlayed' = Null
    /\ UNCHANGED <<envVars, loadVars, activeSounds, rainGainNode, chan, stopToneRun,
                   ambientVars, droneVars, pianoVars, pitchVars, fadeVars,
                   mode, appFrequency, appSoundVars>>

\* The slider of the tuning panel: setFrequency(f), then the effect.
setFrequency(f) ==
    /\ mode = "TUNING"
    /\ f # appFrequency
    /\ appFrequency' = f
    /\ tones' = FrequencyEffect(tinnitusOsc, ctx, tones, isPlaying, f)
    /\ justPlayed' = Null
    /\ UNCHANGED <<envVars, ctxVars, loadVars, activeSounds, rainGainNode, chan, thrown,
                   tinnitusOsc, tinnitusGain, stopToneRun,
                   ambientVars, droneVars, pianoVars, pitchVars, fadeVars,
                   mode, isPlaying, appSoundVars>>

\* "Confirm": stopTinnitusTone(); setIsPlaying(false);
\* startAmbientTrack(frequency); setMode(GARDEN)
handleConfirmFrequency ==
    /\ mode = "TUNING"
    /\ IF StopToneThrows
       THEN /\ thrown' = TRUE
            /\ UNCHANGED <<ctxVars, tinnitusOsc, tinnitusGain, tones, isPlaying,
                           ambientVars, droneNodes, mode>>
       ELSE LET st == StopToneFields(tinnitusOsc, tinnitusGain, tones)
            IN  /\ tinnitusOsc' = st.osc
                /\ tinnitusGain' = st.gain
                /\ tones' = st.tones
                /\ isPlaying' = FALSE
                /\ IF InitThrows
                   THEN /\ thrown' = TRUE
                        /\ UNCHANGED <<ctxVars, ambientVars, droneNodes, mode>>
                   ELSE /\ init
                        /\ ambientSource' = Null
                        /\ droneNodes' = AmbientDrone(droneNodes)
                        /\ ambientBusy' = (ambientBusy \/ AllSounding)
                        /\ mode' = "GARDEN"
                        /\ UNCHANGED thrown
    /\ justPlayed' = Null
    /\ UNCHANGED <<envVars, loadVars, activeSounds, rainGainNode, chan, stopToneRun,
                   drones, droneToggle, pianoVars, pitchVars, fadeVars, appFrequency, appSoundVars>>

\* "Retune Frequency": setMode(TUNING)
RetuneFrequency ==
    /\ mode = "GARDEN"
    /\ mode' = "TUNING"
    /\ justPlayed' = Null
    /\ UNCHANGED <<envVars, ctxVars, loadVars, activeSounds, rainGainNode, chan, thrown,
                   toneVars, ambientVars, droneVars, pianoVars, pitchVars, fadeVars,
                   isPlaying, appFrequency, appSoundVars>>


\* --------------------------------------------------- App: garden sounds
\* const PRESETS, in the order of their sounds arrays
Presets ==
    << <<"BIRD", "LEAVES", "INSECT">>,
       <<"RAIN", "WATER", "WIND">>,
       <<"WATER", "WIND", "BIRD">>,
       <<"INSECT", "WIND">> >>

SeqSet(q) == {q[i] : i \in 1 .. Len(q)}

\* what the onEnded callback of a channel of id type leaves in stopFns:
\* stopFns.current.delete(type)
CallbackDelete(fns, type, c) == [fns EXCEPT ![type] = Null]

\* what a stop through the UI leaves in the UI's set: next.delete(type)
UiDelete_Kept(ui, type) == ui

UiDelete(ui, type) == ui \ {type}

\* forEach over the ids of S: const stop = stopFns.current.get(sound);
\* if (stop) stop().  The stops of different ids commute.
RECURSIVE StopEach(_, _, _)
StopEach(e, fns, S) ==
    IF S = {} THEN e
    ELSE LET x == CHOOSE y \in S : TRUE
             e1 == IF fns[x] # Null
                   THEN StopFields(e, fns[x], justPlayed = fns[x])
                   ELSE e
         IN  StopEach(e1, fns, S \ {x})

\* preset.sounds.forEach from index i on: a sound that is not active is
\* started and its stop handle stored; r is [e: engine fields, fns: stopFns]
RECURSIVE StartEach(_, _, _, _)
StartEach(r, q, active, i) ==
    IF i > Len(q) THEN r
    ELSE IF q[i] \in active THEN StartEach(r, q, active, i + 1)
    ELSE LET e1 == PlayFields(r.e, q[i], appFrequency, TRUE, 500)
         IN  StartEach([e |-> e1, fns |-> [r.fns EXCEPT ![q[i]] = Len(e1.chan)]],
                       q, active, i + 1)

\* A click on a garden object.
toggleSound(maxCh, type) ==
    /\ mode = "GARDEN" /\ ctx # "null"
    /\ IF type \in uiActive
       THEN LET e == StopEach(Engine, stopFns, {type})
            IN  /\ activeSounds' = e.as
                /\ chan' = e.chan
                /\ rainGainNode' = e.rgn
                /\ stopFns' = [stopFns EXCEPT ![type] = Null]
                /\ uiActive' = UiDelete(uiActive, type)
                /\ justPlayed' = Null
                /\ UNCHANGED ctxVars
       ELSE LET e == PlayFields(Engine, type, appFrequency, TRUE, 500)
            IN  /\ Len(chan) < maxCh
                /\ init
                /\ activeSounds' = e.as
                /\ chan' = e.chan
                /\ rainGainNode' = e.rgn
                /\ stopFns' = [stopFns EXCEPT ![type] = Len(e.chan)]
                /\ uiActive' = uiActive \cup {type}
                /\ justPlayed' = Len(e.chan)
    /\ UNCHANGED <<envVars, loadVars, thrown, toneVars, ambientVars, droneVars,
                   pianoVars, pitchVars, fadeVars, mode, isPlaying, appFrequency>>

\* A click on a soundscape: the active sounds outside the preset are stopped,
\* the preset's sounds that are not active are started.
applyPreset(maxCh, p) ==
    LET q == Presets[p]
        toStop == uiActive \ SeqSet(q)
        toStart == SeqSet(q) \ uiActive
        e1 == StopEach(Engine, stopFns, toStop)
        fns1 == [x \in Ids |-> IF x \in toStop THEN Null ELSE stopFns[x]]
        r == StartEach([e |-> e1, fns |-> fns1], q, uiActive, 1)
    IN  /\ mode = "GARDEN" /\ ctx # "null"
        /\ Len(chan) + Cardinality(toStart) <= maxCh
        /\ IF toStart # {} THEN init ELSE UNCHANGED ctxVars
        /\ activeSounds' = r.e.as
        /\ chan' = r.e.chan
        /\ rainGainNode' = r.e.rgn
        /\ stopFns' = r.fns
        /\ uiActive' = SeqSet(q)
        /\ justPlayed' = Null
        /\ UNCHANGED <<envVars, loadVars, thrown, toneVars, ambientVars, droneVars,
                       pianoVars, pitchVars, fadeVars, mode, isPlaying, appFrequency>>

\* The "Silence" button: every active sound's handle is called, stopFns is
\* cleared and the set emptied.  (It also switches the harmony toggles off;
\* their effects run only when a toggle was on.)
Silence ==
    LET e == StopEach(Engine, stopFns, uiActive)
    IN  /\ mode = "GARDEN" /\ ctx # "null"
        /\ activeSounds' = e.as
        /\ chan' = e.chan
        /\ rainGainNode' = e.rgn
        /\ stopFns' = [x \in Ids |-> Null]
        /\ uiActive' = {}
        /\ justPlayed' = Null
        /\ UNCHANGED <<envVars, ctxVars, loadVars, thrown, toneVars, ambientVars,
                       droneVars, pianoVars, pitchVars, fadeVars,
                       mode, isPlaying, appFrequency>>

\* The end event of BIRD channel c with the callback toggleSound and
\* applyPreset pass: the engine's handler, then the App's
\* setActiveSounds(current => ... updated.delete(type);
\* stopFns.current.delete(type) ...).
EndCallback(c) ==
    /\ EndEventDue(chan, c)
    /\ chan[c].hasCb
    /\ LET r == EndHandler(EndedChannel(chan, c), c, rainGainNode, activeSounds)
       IN  /\ activeSounds' = r.as
           /\ chan' = r.chan
    /\ uiActive' = uiActive \ {chan[c].id}
    /\ stopFns' = CallbackDelete(stopFns, chan[c].id, c)
    /\ justPlayed' = Null
    /\ UNCHANGED <<envVars, ctxVars, loadVars, rainGainNode, thrown, toneVars,
                   ambientVars, droneVars, pianoVars, pitchVars, fadeVars,
                   mode, isPlaying, appFrequency>>


\* ------------------------------------------------------- specifications
InitHarmony ==
    /\ thrown = FALSE
    /\ tinnitusOsc = Null
    /\ tinnitusGain = Null
    /\ tones = <<>>
    /\ stopToneRun = 0
    /\ ambientSource = Null
    /\ ambientBusy = FALSE
    /\ droneToggle = [on |-> FALSE, n |-> 0]
    /\ pianoToggle = [on |-> FALSE, n |-> 0]
    /\ droneNodes = Null
    /\ drones = <<>>
    /\ pianoTimeout = Null
    /\ timers = {}
    /\ nextTimer = 1
    /\ notes = 0
    /\ pianoNotes = <<>>
    /\ InitFade

\* The App as mounted: useState(AppMode.INTRO), useState(4500), useState(false)
\* useState(new Set()), useRef(new Map())
InitAppSounds ==
    /\ uiActive = {}
    /\ stopFns = [x \in Ids |-> Null]

InitAppState ==
    /\ mode = "INTRO"
    /\ isPlaying = FALSE
    /\ appFrequency = 4500
    /\ InitAppSounds

InitOther ==
    /\ InitHarmony
    /\ pF = BaseFreq
    /\ pAggressive = TRUE
    /\ pOut = 0
    /\ pDone = FALSE

InitChannels ==
    /\ activeSounds = {}
    /\ rainGainNode = Null
    /\ chan = <<>>
    /\ justPlayed = Null

\* The engine as constructed: no context, no buffers, nothing playing.
InitConstructed ==
    /\ ctx = "null"
    /\ masterGain = FALSE
    /\ created = 0
    /\ buffers = [a \in Ids |-> FALSE]
    /\ loadPc = 0
    /\ attempted = {}
    /\ InitChannels
    /\ InitOther
    /\ InitAppState

\* The engine after loadAmbientTrack has run to completion on a platform with
\* an audio context (the App calls it once, when it mounts).
LoadedEngine ==
    /\ deviceAvailable = TRUE
    /\ ctx = "running"
    /\ masterGain = TRUE
    /\ created = 1
    /\ buffers = [a \in Ids |-> a \notin missing]
    /\ loadPc = 7
    /\ attempted = Ids
    /\ InitChannels
    /\ InitOther

InitLoaded == LoadedEngine /\ InitAppState

PlayBounded(maxCh, types, freqs, cbs, rnds) ==
    /\ Len(chan) < maxCh
    /\ \E type \in types, f \in freqs, cb \in cbs, rnd \in rnds : Play(type, f, cb, rnd)

\* A caller that, like the App's toggleSound, starts only ids that are not active.
PlayInactive(maxCh, types, freqs, cbs, rnds) ==
    /\ Len(chan) < maxCh
    /\ \E type \in types \ activeSounds, f \in freqs, cb \in cbs, rnd \in rnds :
          Play(type, f, cb, rnd)

StopBounded(maxCh, maxCalls) ==
    \E c \in 1 .. maxCh :
        /\ c <= Len(chan)
        /\ chan[c].stopCalls < maxCalls
        /\ StopFn(c)

EndEvents(maxCh) ==
    \E c \in 1 .. maxCh : OnEnded(c) \/ BirdTimeout(c) \/ SourceStopped(c)

\* Spec: every interaction-sound operation, any caller, after loading.
Init ==
    /\ missing \in {{}, {"BIRD", "WIND"}, Ids}
    /\ InitLoaded

Next ==
    \/ PlayBounded(MaxChannels, Ids, {BaseFreq}, BOOLEAN, {500})
    \/ StopBounded(MaxChannels, MaxStopCalls)
    \/ EndEvents(MaxChannels)

Spec == Init /\ [][Next]_vars

\* SpecDuck: ducking, with a caller that never starts an active id.
DuckIds == {"RAIN", "BIRD", "WIND"}

InitDuck ==
    /\ missing \in {{}, {"BIRD"}, {"RAIN"}}
    /\ InitLoaded

NextDuck ==
    \/ PlayInactive(DuckChannels, DuckIds, {BaseFreq}, {TRUE}, {500})
    \/ StopBounded(DuckChannels, DuckStopCalls)
    \/ EndEvents(DuckChannels)

SpecDuck == InitDuck /\ [][NextDuck]_vars

\* SpecLoad: loading from construction, every set of missing assets, and
\* interaction sounds started once loading has completed.
InitLoad ==
    /\ deviceAvailable = TRUE
    /\ missing \in SUBSET Ids
    /\ InitConstructed

NextLoad ==
    \/ LoadAmbientTrack
    \/ LoadResume
    \/ (loadPc = 7 /\ PlayBounded(LoadChannels, Ids, {BaseFreq}, {TRUE}, {500}))
    \/ StopBounded(LoadChannels, MaxStopCalls)
    \/ EndEvents(LoadChannels)

SpecLoad == InitLoad /\ [][NextLoad]_vars

\* SpecSynth: synthesized channels started at several reference frequencies.
SynthFreqs == {MIN_FREQ, BaseFreq, MAX_FREQ}

InitSynth ==
    /\ missing \in {{"WATER"}, Ids}
    /\ InitLoaded

NextSynth ==
    PlayBounded(SynthChannels, Ids, SynthFreqs, {TRUE}, {500})

SpecSynth == InitSynth /\ [][NextSynth]_vars

\* SpecPitch: calculatePitch applied to one reference frequency.
PitchFreqs == {k * 20 : k \in 1 .. MaxPitchStep}

InitPitchSpec ==
    /\ deviceAvailable = TRUE
    /\ missing = {}
    /\ ctx = "null"
    /\ masterGain = FALSE
    /\ created = 0
    /\ buffers = [a \in Ids |-> FALSE]
    /\ loadPc = 0
    /\ attempted = {}
    /\ InitChannels
    /\ InitHarmony
    /\ InitAppState
    /\ pF \in PitchFreqs
    /\ pAggressive \in BOOLEAN
    /\ pOut = 0
    /\ pDone = FALSE

CalcPitch ==
    /\ ~pDone
    /\ pOut' = calculatePitch(pF, BaseFreq, pAggressive)
    /\ pDone' = TRUE
    /\ UNCHANGED <<envVars, ctxVars, loadVars, chanVars, thrown, toneVars,
                   ambientVars, droneVars, pianoVars, pF, pAggressive, fadeVars, appVars>>

SpecPitch == InitPitchSpec /\ [][CalcPitch]_vars

\* A caller makes at most maxRepeat toggle calls in one direction in a row.
MayToggle(toggle, on, maxRepeat) ==
    ~(toggle.n > 0 /\ toggle.on = on) \/ toggle.n < maxRepeat

\* record: whether the run keeps the record of the calls made in a row
DroneOps(maxDrones, maxRepeat, record) ==
    \/ /\ MayToggle(droneToggle, TRUE, maxRepeat)
       /\ droneNodes = Null => Len(drones) < maxDrones
       /\ StartDrone(record)
    \/ (MayToggle(droneToggle, FALSE, maxRepeat) /\ StopDrone(record))
    \/ (\E d \in 1 .. maxDrones : DroneTeardown(d))

PianoTimer(maxTimers, rnds) ==
    \E id \in 1 .. maxTimers, rnd \in rnds :
        nextTimer <= maxTimers /\ PianoTimerFires(id, rnd)

PianoOps(maxTimers, maxRepeat, record, rnds) ==
    \/ /\ MayToggle(pianoToggle, TRUE, maxRepeat)
       /\ pianoTimeout = Null => nextTimer <= maxTimers
       /\ \E rnd \in rnds : StartPiano(record, rnd)
    \/ (MayToggle(pianoToggle, FALSE, maxRepeat) /\ StopPiano(record))
    \/ PianoTimer(maxTimers, rnds)

ToneOps(freqs, maxTones, maxRepeat, record) ==
    \/ (Len(tones) < maxTones /\ \E f \in freqs : StartTinnitusTone(f, 100))
    \/ (\E f \in freqs : UpdateTinnitusFreq(f))
    \/ (stopToneRun < maxRepeat /\ StopTinnitusTone(record))

\* SpecTone: the calibration tone, started, retuned and stopped in any order.
InitToneSpec ==
    /\ deviceAvailable = TRUE
    /\ missing = {}
    /\ InitConstructed

NextTone ==
    \/ InitCall
    \/ ToneOps({MIN_FREQ, BaseFreq, MAX_FREQ}, MaxTones, MaxRepeat, TRUE)

SpecTone == InitToneSpec /\ [][NextTone]_vars

\* SpecHarmony: the drone and the sequencer, toggled in any order.
InitHarmonySpec ==
    /\ deviceAvailable = TRUE
    /\ missing = {}
    /\ InitConstructed

NextHarmony ==
    \/ DroneOps(MaxDrones, MaxRepeat, TRUE)
    \/ PianoOps(MaxTimers, MaxRepeat, TRUE, MidRandom)

SpecHarmony == InitHarmonySpec /\ [][NextHarmony]_vars

\* SpecApi: every public operation, with and without an audio context.
InitApi ==
    /\ deviceAvailable \in BOOLEAN
    /\ missing = {}
    /\ InitConstructed

\* how many channels, tones, drones and timers the run has created
Objects == Len(chan) + Len(tones) + Len(drones) + (nextTimer - 1)

\* The operations on sounds, tone, drone and sequencer, and their events, for
\* a run that creates at most maxObjects objects.
SoundOps(maxObjects, maxRepeat) ==
    LET free == maxObjects - Objects
    IN  \/ PlayBounded(Len(chan) + free, {"BIRD", "RAIN"}, {BaseFreq}, {TRUE}, {500})
        \/ StopBounded(maxObjects, maxRepeat)
        \/ EndEvents(maxObjects)
        \/ ToneOps({BaseFreq}, Len(tones) + free, maxRepeat, FALSE)
        \/ StartAmbientTrack(BaseFreq)
        \/ DroneOps(Len(drones) + free, maxRepeat, FALSE)
        \/ PianoOps(nextTimer - 1 + free, maxRepeat, FALSE, MidRandom)

NextApi ==
    \/ InitCall
    \/ LoadAmbientTrack
    \/ LoadResumeWith({"ok", "fetchThrows"})
    \/ SoundOps(ApiObjects, ApiRepeat)

SpecApi == InitApi /\ [][NextApi]_vars

\* SpecAmbient: the operations of the garden phase, after loading.
InitAmbient ==
    /\ missing \in {{}, {"BIRD"}, {"RAIN"}}
    /\ InitLoaded

NextAmbient == SoundOps(AmbientObjects, ApiRepeat)

SpecAmbient == InitAmbient /\ [][NextAmbient]_vars

\* SpecFade: one gain owner is started at time 0 and stopped once, some
\* tenths of a second later.
BirdDurations == {1000, 3000}

InitFadeSpec ==
    /\ deviceAvailable = TRUE
    /\ missing = {}
    /\ InitConstructed

NextFade ==
    \/ \E op \in FadeOps, sampled \in BOOLEAN, dur \in BirdDurations \cup {0},
          f \in SynthFreqs :
           /\ (op \notin Ids) => ~sampled
           /\ IF op = "BIRD" /\ sampled THEN dur # 0 ELSE dur = 0 /\ f = BaseFreq
           /\ FadeStart(op, sampled, dur, f)
    \/ \E k \in 0 .. MaxStopAt : FadeStop(k * 100)

SpecFade == InitFadeSpec /\ [][NextFade]_vars

\* SpecRate: sampled channels started at reference frequencies below, in and
\* above the calibration range; Math.random() at its least, middle and
\* greatest value (thousandths).
RateFreqs == {k * 1000 : k \in 1 .. MaxRateKHz}
RandomValues == {0, 500, 999}

InitRate ==
    /\ missing = {}
    /\ InitLoaded

NextRate == PlayBounded(RateChannels, Ids, RateFreqs, {TRUE}, RandomValues)

SpecRate == InitRate /\ [][NextRate]_vars

\* SpecPiano: the sequencer alone, with Math.random() at its least, middle
\* and greatest value for the pitch and for the delay. A pending
\* window.setTimeout timer fires, and an oscillator told to stop ends: both
\* are weakly fair.
PianoRandom == {[note |-> a, next |-> a] : a \in RandomValues}

NextPiano ==
    \/ PianoOps(MaxPianoNotes, ApiRepeat, TRUE, PianoRandom)
    \/ \E n \in 1 .. MaxPianoNotes : NoteEnded(n)

SpecPiano ==
    /\ InitHarmonySpec
    /\ [][NextPiano]_vars
    /\ WF_vars(PianoTimer(MaxPianoNotes, PianoRandom))
    /\ WF_vars(\E n \in 1 .. MaxPianoNotes : NoteEnded(n))

\* SpecEnvelope: a sampled BIRD of any buffer duration, at rates from 0.5 to 2.5.
EnvelopeDurations == {k * 100 : k \in 1 .. MaxDurationTenths}

EnvelopeFreqs == {4000, MIN_FREQ, BaseFreq, MAX_FREQ, 20000}

NextEnvelope ==
    \/ \E dur \in EnvelopeDurations, f \in EnvelopeFreqs : FadeStart("BIRD", TRUE, dur, f)
    \/ \E k \in 0 .. MaxStopAt : FadeStop(k * 100)

SpecEnvelope == InitFadeSpec /\ [][NextEnvelope]_vars

\* SpecStop: starts, stop-handle calls and end events of every category in both
\* modes.  The platform delivers every scheduled stop and every timer: an end
\* event that is due does happen.
InitStop ==
    /\ missing \in {{}, Ids}
    /\ InitLoaded

NextStop ==
    \/ PlayBounded(StopChannels, Ids, {BaseFreq}, {FALSE}, {500})
    \/ StopBounded(StopChannels, DuckStopCalls)
    \/ EndEvents(StopChannels)

SpecStop == InitStop /\ [][NextStop]_vars /\ WF_vars(EndEvents(StopChannels))

\* SpecUi: the garden screen.  The frequency was confirmed without the tone
\* having been played, after loading had completed; the sounds are then
\* started and stopped through the UI only.
InitUi ==
    /\ missing \in {{}, Ids}
    /\ LoadedEngine
    /\ mode = "GARDEN"
    /\ isPlaying = FALSE
    /\ appFrequency = 4500
    /\ InitAppSounds

NextUi ==
    \/ \E type \in Ids : toggleSound(UiChannels, type)
    \/ \E p \in 1 .. Len(Presets) : applyPreset(UiChannels, p)
    \/ Silence
    \/ \E c \in 1 .. UiChannels : EndCallback(c)
    \/ \E c \in 1 .. UiChannels : SourceStopped(c)

SpecUi == InitUi /\ [][NextUi]_vars

\* SpecApp: the App's calibration handlers, from the mount of the App (whose
\* effect calls loadAmbientTrack once) on, with or without an audio device.
AppFrequencies == {MIN_FREQ, BaseFreq, MAX_FREQ}

InitAppSpec ==
    /\ deviceAvailable \in BOOLEAN
    /\ missing = {}
    /\ InitConstructed

NextApp ==
    \/ LoadAmbientTrack
    \/ LoadResumeWith({"ok"})
    \/ handleStart
    \/ toggleTinnitusTone(MaxTones)
    \/ \E f \in AppFrequencies : setFrequency(f)
    \/ handleConfirmFrequency
    \/ RetuneFrequency

SpecApp == InitAppSpec /\ [][NextApp]_vars

\* ================================================================ claims
ChanIds == 1 .. Len(chan)
IsLatest(c) == \A d \in ChanIds : d > c => chan[d].id # chan[c].id
Producing(c) == chan[c].phase \in {"playing", "stopping"}
NonRainActive == activeSounds \ {"RAIN"} # {}

\* C1: with a caller that never starts an active id, whenever RAIN is active and
\* its channel plays the decoded rain asset, the target most recently scheduled
\* on RAIN's gain is 0.05 if any other id is active and 0.15 otherwise.
C1_DuckingSampledRain ==
    \A r \in ChanIds :
        (chan[r].id = "RAIN" /\ IsLatest(r) /\ chan[r].sampled /\ "RAIN" \in activeSounds)
            => chan[r].target = (IF NonRainActive THEN 50 ELSE 150)

\* RAIN was ducked by a second sound and is back at 0.15 after that sound stopped.
C1_Witness ==
    \E r, c \in ChanIds :
        /\ chan[r].id = "RAIN" /\ chan[r].sampled /\ r < c
        /\ chan[c].id # "RAIN" /\ chan[c].stopCalls > 0
        /\ activeSounds = {"RAIN"}
        /\ chan[r].target = 150

\* C2: when RAIN's channel is synthesized, the target most recently scheduled on
\* its gain is 0.03 if any other id is active and 0.08 otherwise.
C2_DuckingSynthRain ==
    \A r \in ChanIds :
        (chan[r].id = "RAIN" /\ IsLatest(r) /\ ~chan[r].sampled /\ "RAIN" \in activeSounds)
            => chan[r].target = (IF NonRainActive THEN 30 ELSE 80)

\* C3 as stated: an id is active iff one of its channels is producing audio,
\* a channel fading out after its stop handle was called included.
C3_ActiveIffProducing ==
    \A x \in Ids :
        (x \in activeSounds) <=> (\E c \in ChanIds : chan[c].id = x /\ Producing(c))

\* C3 as amended: if an id is active, the channel most recently started for it
\* has had neither its stop handle called nor its end event delivered.
C3_ActiveImpliesLatestLive ==
    \A x \in activeSounds :
        \E c \in ChanIds :
            /\ chan[c].id = x /\ IsLatest(c)
            /\ chan[c].stopCalls = 0
            /\ chan[c].phase = "playing"

\* A channel is fading out after its stop handle was called and its id is
\* already absent from the set.
C3_Witness ==
    \E c \in ChanIds :
        /\ chan[c].phase = "stopping" /\ chan[c].stopCalls = 1
        /\ chan[c].id \notin activeSounds

\* C4: a step that calls the stop handle of the channel the previous step
\* started leaves the id out of the set and lets no exception escape.
C4_StartThenStop ==
    [][\A c \in ChanIds :
          (justPlayed = c /\ chan'[c].stopCalls = chan[c].stopCalls + 1)
              => (chan[c].id \notin activeSounds' /\ ~thrown')]_vars

\* A sampled and a synthesized channel were each stopped right after their start.
C4_Witness ==
    \E c, d \in ChanIds :
        /\ chan[c].immStop /\ chan[c].sampled /\ chan[c].id \notin activeSounds
        /\ chan[d].immStop /\ ~chan[d].sampled /\ chan[d].id \notin activeSounds
        /\ ~thrown

\* C5: a sampled BIRD that ended without its stop handle having been called has
\* had its callback invoked once, and whenever the callback of a sampled BIRD
\* ran, BIRD was already out of the set and ducking already re-evaluated.
C5_NaturalEndOrder ==
    \A c \in ChanIds :
        (chan[c].id = "BIRD" /\ chan[c].sampled /\ chan[c].hasCb)
            => /\ (chan[c].phase = "ended" /\ chan[c].stopCalls = 0) => chan[c].cbCalls = 1
               /\ chan[c].cbCalls > 0 => (~chan[c].cbActive /\ chan[c].cbDucked)

\* A sampled BIRD ended on its own while a sampled RAIN was playing: the callback
\* ran once and RAIN is back at 0.15.
C5_Witness ==
    \E r, c \in ChanIds :
        /\ chan[r].id = "RAIN" /\ chan[r].sampled /\ rainGainNode = r /\ r < c
        /\ chan[c].id = "BIRD" /\ chan[c].sampled /\ chan[c].stopCalls = 0
        /\ chan[c].phase = "ended" /\ chan[c].cbCalls = 1
        /\ chan[r].target = 150

\* C6: a second or later call of a channel's stop handle throws nothing, leaves
\* the id absent, leaves ducking evaluated, and leaves every other channel as it
\* was (but for the re-evaluated RAIN target), the ducking reference to another
\* channel's gain included.
C6_SecondStopTouchesOnlyItsChannel ==
    [][\A c \in ChanIds :
          (chan[c].stopCalls >= 1 /\ chan'[c].stopCalls = chan[c].stopCalls + 1)
              => /\ ~thrown'
                 /\ chan[c].id \notin activeSounds'
                 /\ DuckingEvaluated(chan', rainGainNode', activeSounds')
                 /\ \A d \in ChanIds \ {c} :
                       [chan'[d] EXCEPT !.target = 0] = [chan[d] EXCEPT !.target = 0]
                 /\ (rainGainNode \notin {Null, c}) => rainGainNode' = rainGainNode]_vars

\* C7: loadAmbientTrack never rejects; once it has completed it has attempted
\* all six assets and holds a buffer for exactly the assets that are not
\* missing; a channel started after that is sampled iff its asset is not
\* missing, its id is active, and its stop handle removes the id.
C7_LoadFailuresIndependent ==
    /\ loadPc # -1
    /\ loadPc = 7 =>
          /\ attempted = Ids
          /\ \A a \in Ids : buffers[a] <=> a \notin missing
          /\ \A c \in ChanIds :
                justPlayed = c =>
                    /\ chan[c].sampled <=> chan[c].id \notin missing
                    /\ chan[c].id \in activeSounds
    /\ \A c \in ChanIds :
          (chan[c].stopCalls > 0 /\ IsLatest(c)) => chan[c].id \notin activeSounds

\* Only WATER is missing: loading completed and WATER was started synthesized.
C7_Witness ==
    /\ loadPc = 7 /\ missing = {"WATER"}
    /\ \A a \in Ids \ {"WATER"} : buffers[a]
    /\ justPlayed # Null
    /\ chan[justPlayed].id = "WATER" /\ ~chan[justPlayed].sampled
    /\ "WATER" \in activeSounds

\* the pitch-mapped multiplier of a channel: aggressive for BIRD and INSECT
Multiplier(c) == calculatePitch(chan[c].freq, BaseFreq, chan[c].id \in AggressiveIds)

\* C8: a synthesized channel's cutoff or carrier is its base value (the value
\* at 8000 Hz) scaled by the pitch-mapped multiplier, so two synthesized
\* channels of one id whose multipliers differ differ in cutoff or carrier.
C8_SynthFollowsPitch ==
    /\ \A c \in ChanIds :
          ~chan[c].sampled =>
              chan[c].param = (SynthParam(chan[c].id, BaseFreq) * Multiplier(c)) \div 1000
    /\ \A c, d \in ChanIds :
          (~chan[c].sampled /\ ~chan[d].sampled /\ chan[c].id = chan[d].id
             /\ Multiplier(c) # Multiplier(d))
              => chan[c].param # chan[d].param

Clamp(x, lo, hi) == IF x < lo THEN lo ELSE IF x > hi THEN hi ELSE x

\* C9: calculatePitch(8000, true) is F/8000 clamped to [0.5, 2.5] and
\* calculatePitch(8000, false) is sqrt(F/8000) clamped to [0.6, 1.8]
\* (thousandths, rounded down); the result lies in the clamp interval.
C9_PitchIsClampedRatio ==
    pDone =>
        IF pAggressive
        THEN /\ pOut = Clamp((pF * 1000) \div 8000, 500, 2500)
             /\ pOut >= 500 /\ pOut <= 2500
        ELSE /\ pOut >= 600 /\ pOut <= 1800
             /\ pOut > 600 => pOut * pOut <= pF * 125
             /\ pOut < 1800 => (pOut + 1) * (pOut + 1) > pF * 125

\* The damped multiplier at the lower end of the calibration range is 0.75.
C9_Witness ==
    pDone /\ pF = 4500 /\ ~pAggressive /\ pOut = 750

\* C10: without an audio context no public operation throws and nothing
\* becomes active.
C10_NoDeviceNoThrow ==
    ~deviceAvailable => (~thrown /\ activeSounds = {} /\ chan = <<>>)

DroneIds == 1 .. Len(drones)

\* C11: at most one drone instance is on, it is the one droneNodes holds, and a
\* toggleDrone(true) made while an instance is on creates and starts nothing;
\* after any number of enables in a row exactly one instance is on.
C11_OneDroneInstance ==
    /\ [](/\ Cardinality({d \in DroneIds : drones[d].phase = "on"}) <= 1
          /\ \A d \in DroneIds : drones[d].phase = "on" <=> droneNodes = d
          /\ (droneToggle.on /\ droneToggle.n > 0) => droneNodes # Null)
    /\ [][(droneNodes # Null /\ droneToggle'.on /\ droneToggle' # droneToggle)
             => (drones' = drones /\ droneNodes' = droneNodes)]_vars

\* The drone was enabled twice in a row and one instance exists.
C11_Witness ==
    /\ droneToggle = [on |-> TRUE, n |-> 2]
    /\ Len(drones) = 1 /\ droneNodes = 1 /\ drones[1].phase = "on"

\* C12: every drone instance has at most one teardown timer set over its life
\* and is released at most once: none while it is on, one pending while it
\* fades, and one release (no timer left) once the timer has fired.
C12_TeardownOnce ==
    \A d \in DroneIds :
        /\ drones[d].phase = "on" => (drones[d].pending = 0 /\ drones[d].released = 0)
        /\ drones[d].phase = "fading" => (drones[d].pending = 1 /\ drones[d].released = 0)
        /\ drones[d].phase = "released" => (drones[d].pending = 0 /\ drones[d].released = 1)

\* The drone was disabled twice in a row while its instance fades (one timer
\* pending), and an earlier instance has been released once.
C12_Witness ==
    /\ droneToggle = [on |-> FALSE, n |-> 2]
    /\ Len(drones) = 2
    /\ drones[1].phase = "released" /\ drones[1].released = 1
    /\ drones[2].phase = "fading" /\ drones[2].pending = 1

\* C13: while the last togglePiano call was togglePiano(false) no sequencer
\* timer is pending, and no step taken between that call and the next
\* togglePiano(true) produces a note.
C13_SequencerCancelled ==
    /\ [](~pianoToggle.on => (timers = {} /\ pianoTimeout = Null))
    /\ [][(~pianoToggle.on /\ ~pianoToggle'.on) => notes' = notes]_vars

\* The sequencer played two notes (its timer fired once) and was then disabled.
C13_Witness ==
    /\ ~pianoToggle.on /\ pianoToggle.n > 0
    /\ notes = 2
    /\ timers = {}

\* C14: at most one sequencer timer is pending, pianoTimeout is non-null
\* exactly when one is pending (and names it), and togglePiano(true) while a
\* note is scheduled produces no note and sets no timer.
C14_SingleTimer ==
    /\ [](/\ Cardinality(timers) <= 1
          /\ pianoTimeout # Null <=> timers # {}
          /\ pianoTimeout # Null => timers = {pianoTimeout})
    /\ [][(pianoTimeout # Null /\ pianoToggle'.on /\ pianoToggle' # pianoToggle)
             => (notes' = notes /\ timers' = timers /\ pianoTimeout' = pianoTimeout)]_vars

\* The sequencer was enabled twice in a row: one note, one timer.
C14_Witness ==
    /\ pianoToggle = [on |-> TRUE, n |-> 2]
    /\ notes = 1
    /\ Cardinality(timers) = 1

ToneIds == 1 .. Len(tones)
\* a tone whose oscillator has not been asked to stop
Live(t) == tones[t].stops = 0

\* C15: stopTinnitusTone never throws; after it no tone is live; no oscillator
\* is asked to stop more than once; and a call made while no tone is playing
\* (before init, or right after another stop) leaves the tone fields, the
\* tones and the context as they were.
C15_StopToneIdempotent ==
    /\ [](/\ ~thrown
          /\ stopToneRun > 0 => tinnitusOsc = Null
          /\ \A t \in ToneIds : tones[t].stops <= 1)
    /\ [][(stopToneRun' = stopToneRun + 1 /\ tinnitusOsc = Null)
             => UNCHANGED <<tinnitusOsc, tinnitusGain, tones, ctxVars, thrown>>]_vars

\* A tone was started and stopTinnitusTone was then called twice in a row.
C15_Witness ==
    /\ stopToneRun = 2
    /\ Len(tones) = 1 /\ tones[1].stops = 1
    /\ tinnitusOsc = Null

\* C16: at most one tone is live and it is the one tinnitusOsc holds; a
\* startTinnitusTone made while a tone is playing asks the old oscillator to
\* stop in the same call that creates the new one.
C16_OneLiveTone ==
    /\ [](/\ Cardinality({t \in ToneIds : Live(t)}) <= 1
          /\ \A t \in ToneIds : Live(t) <=> tinnitusOsc = t)
    /\ [][(Len(tones') > Len(tones) /\ tinnitusOsc # Null)
             => (tones'[tinnitusOsc].stops = 1 /\ tinnitusOsc' = Len(tones'))]_vars

\* Three tones were started one over the other with no stop call in between:
\* the first two were superseded, the third is live.
C16_Witness ==
    /\ Len(tones) = 3
    /\ tones[1].stops = 1 /\ tones[2].stops = 1 /\ Live(3)
    /\ tones[1].gainTarget = 1 /\ tones[2].gainTarget = 1
    /\ tinnitusOsc = 3

\* C17: over every sequence of public operations at most one audio context
\* (with its master gain) is ever constructed; once it exists no operation
\* replaces it or its master gain, the only change to it is a suspended
\* context resuming, and init() called again changes nothing else at all.
C17_InitIdempotent ==
    /\ [](created <= 1 /\ (ctx # "null" <=> created = 1) /\ (masterGain <=> created = 1))
    /\ [][ctx # "null" => /\ UNCHANGED <<masterGain, created>>
                          /\ ctx' = ctx \/ (ctx = "suspended" /\ ctx' = "running")]_vars
    /\ [][(ctx # "null" /\ InitCall)
             => UNCHANGED <<loadVars, activeSounds, rainGainNode, chan,
                            thrown, otherVars>>]_vars

\* loadAmbientTrack, startTinnitusTone and playInteractionSound were each
\* called (each calls init) and one context exists.
C17_Witness ==
    /\ created = 1
    /\ Len(tones) = 1 /\ Len(chan) = 1
    /\ loadPc = 7

\* C18: once a stop operation has scheduled its fade-out, no gain event later
\* than the end of that fade-out holds a value above zero: nothing scheduled
\* before the stop raises the gain again after it has faded.
C18_NoRampAfterFade ==
    (fadePhase = "stopped" /\ stopCall.fadeEnd >= 0) =>
        \A i \in 1 .. Len(gainEvents) :
            gainEvents[i].time > stopCall.fadeEnd => gainEvents[i].value = 0

\* C19: calling a category's stop handle schedules a fade-out that lasts
\* between 0.3 s and 1.5 s, and every source node the channel started is told
\* to stop, no earlier than the end of that fade-out.
C19_FadeThenRelease ==
    (fadePhase = "stopped" /\ fadeCase.op \in Ids) =>
        /\ stopCall.fadeEnd >= 0
        /\ stopCall.fadeEnd - stopCall.now \in 300 .. 1500
        /\ \A n \in StartedSources(fadeCase.op, fadeCase.sampled) :
               /\ \E st \in sourceStops : st.node = n
               /\ \A st \in sourceStops : st.node = n => st.time >= stopCall.fadeEnd

\* C20: startAmbientTrack, in whatever state it is called, leaves the active
\* set, every interaction channel (its nodes, stop handle and gain target), the
\* RAIN ducking reference, the drone, the sequencer's timers and notes, and the
\* calibration tone as they were.
C20_AmbientNoEffect ==
    [][StartAmbientTrack(BaseFreq)
          => UNCHANGED <<activeSounds, rainGainNode, chan, droneNodes, drones,
                         pianoTimeout, timers, nextTimer, notes,
                         tinnitusOsc, tinnitusGain, tones>>]_vars

\* startAmbientTrack has been called while an interaction sound, the drone and
\* the sequencer were on, and all three still are.
C20_Witness ==
    /\ ambientBusy
    /\ AllSounding

\* C21: a step that changes the drone or the sequencer (a toggle, the drone's
\* teardown timer, a sequencer timer firing) leaves the active set, the RAIN
\* reference and every channel (its gain target included) as they were; and a
\* step that changes the active set or a channel (a start, a stop handle, an
\* end event) leaves the drone's nodes and the sequencer's timers and notes as
\* they were.
C21_HarmonyIndependent ==
    /\ [][(<<droneNodes, drones>> # <<droneNodes', drones'>>
            \/ <<pianoTimeout, timers, nextTimer, notes>>
                   # <<pianoTimeout', timers', nextTimer', notes'>>)
             => UNCHANGED <<activeSounds, rainGainNode, chan>>]_vars
    /\ [][(<<activeSounds, rainGainNode, chan>> # <<activeSounds', rainGainNode', chan'>>)
             => UNCHANGED <<droneNodes, drones, pianoTimeout, timers, nextTimer, notes>>]_vars

\* RAIN is playing while the drone is on and the sequencer, having produced
\* a note, has a timer pending.
C21_Witness ==
    /\ rainGainNode # Null
    /\ "RAIN" \in activeSounds
    /\ droneNodes # Null
    /\ pianoTimeout # Null
    /\ notes > 0

\* C22: the playback rate of a sampled channel is the pitch-mapped multiplier
\* of its id (aggressive for BIRD and INSECT, damped for the others), and so
\* lies in [0.5, 2.5] resp. [0.6, 1.8].
C22_SampledRateIsMultiplier ==
    \A c \in ChanIds :
        chan[c].sampled =>
            /\ chan[c].param = Multiplier(c)
            /\ IF chan[c].id \in AggressiveIds
               THEN chan[c].param >= AggressiveMin /\ chan[c].param <= AggressiveMax
               ELSE chan[c].param >= DampedMin /\ chan[c].param <= DampedMax

\* C23: a sampled BIRD of buffer duration D played at rate r gets, after its
\* rise, a hold point at D/r - 0.2 s and a ramp that reaches zero at D/r after
\* its start (to the millisecond); it is the one sound that does not loop.
\* Every other category loops, and nothing scheduled at its start takes its
\* gain back to zero.
C23_OneShotEnvelope ==
    (fadePhase = "playing" /\ fadeCase.op \in Ids) =>
        IF fadeCase.op = "BIRD"
        THEN /\ ~fadeCase.loop
             /\ fadeCase.sampled =>
                   LET n == Len(gainEvents)
                       end == gainEvents[n].time
                   IN  /\ n = 4
                       /\ gainEvents[n].kind = "lin" /\ gainEvents[n].value = 0
                       /\ end * fadeCase.rate <= fadeCase.duration * 1000
                       /\ (end + 1) * fadeCase.rate > fadeCase.duration * 1000
                       /\ gainEvents[n - 1].kind = "set"
                       /\ gainEvents[n - 1].value = gainEvents[2].value
                       /\ gainEvents[n - 1].time = end - gainEvents[2].time
        ELSE /\ fadeCase.loop
             /\ \A i \in 1 .. Len(gainEvents) :
                   gainEvents[i].time > 0 => gainEvents[i].value > 0

\* A sampled BIRD of 3 s played at rate 1.25 (reference 10 kHz): the ramp
\* ends 2.4 s after the start.
C23_Witness ==
    /\ fadePhase = "playing"
    /\ fadeCase.op = "BIRD" /\ fadeCase.sampled
    /\ fadeCase.duration = 3000 /\ fadeCase.rate = 1250
    /\ gainEvents[Len(gainEvents)].time = 2400

\* the frequencies of the scale
ScaleFreqs == {Scale[i] : i \in 1 .. Len(Scale)}

\* C24: an enable that finds the sequencer off produces a note at once; a
\* note produced by a timer comes after the delay that timer was given, and
\* every delay given is at least 2000 ms and less than 5000 ms; every note's
\* pitch is one of the seven scale frequencies; and while the sequencer is on
\* another note always follows (as far as the run's note bound reaches),
\* unless the sequencer is disabled first.
C24_SequencerProgress ==
    /\ [](\A n \in 1 .. Len(pianoNotes) :
             /\ pianoNotes[n].freq \in ScaleFreqs
             /\ Cardinality(ScaleFreqs) = 7
             /\ pianoNotes[n].next >= 2000 /\ pianoNotes[n].next < 5000
             /\ pianoNotes[n].after = 0
                  \/ (pianoNotes[n].after >= 2000 /\ pianoNotes[n].after < 5000))
    /\ [][(pianoTimeout = Null /\ pianoToggle' # pianoToggle /\ pianoToggle'.on)
            => /\ Len(pianoNotes') = Len(pianoNotes) + 1
               /\ pianoNotes'[Len(pianoNotes')].after = 0
               /\ pianoTimeout' # Null]_vars
    /\ [][(pianoTimeout # Null /\ Len(pianoNotes') = Len(pianoNotes) + 1)
            => /\ pianoTimeout \in timers
               /\ pianoNotes'[Len(pianoNotes')].after = TimerDelay(pianoTimeout)]_vars
    /\ \A k \in 1 .. MaxPianoNotes :
          (pianoTimeout # Null /\ Len(pianoNotes) = k /\ nextTimer <= MaxPianoNotes)
              ~> (Len(pianoNotes) > k \/ pianoTimeout = Null)

\* Three notes in a row without a disable: the first at once, the second
\* 2000 ms and the third 4997 ms after its predecessor.
C24_Witness ==
    /\ Len(pianoNotes) = 3
    /\ pianoToggle = [on |-> TRUE, n |-> 1]
    /\ pianoNotes[1].after = 0
    /\ pianoNotes[2].after = 2000
    /\ pianoNotes[3].after = 4997
    /\ pianoNotes[3].freq = 46616

\* C25: togglePiano(false) leaves every note already started as it is; every
\* note is told at its start to stop 4.5 s later and keeps that, and it does
\* end, whether or not the sequencer was disabled meanwhile.
C25_DisableNotHardMute ==
    /\ [][(pianoToggle' # pianoToggle /\ ~pianoToggle'.on) => pianoNotes' = pianoNotes]_vars
    /\ [](\A n \in 1 .. Len(pianoNotes) : pianoNotes[n].release = 4500)
    /\ \A n \in 1 .. MaxPianoNotes :
          (Len(pianoNotes) >= n)
              ~> (Len(pianoNotes) >= n /\ pianoNotes[n].phase = "released")

\* The sequencer was disabled while its two notes were sounding; one of them
\* has ended since, the other is still sounding.
C25_Witness ==
    /\ pianoToggle = [on |-> FALSE, n |-> 1]
    /\ pianoTimeout = Null
    /\ Len(pianoNotes) = 2
    /\ pianoNotes[1].phase = "released"
    /\ pianoNotes[2].phase = "sounding"

\* the reference frequencies SpecTone retunes to
ToneFreqs == {MIN_FREQ, BaseFreq, MAX_FREQ}

\* C26: updateTinnitusFreq keeps the oscillator and gain the engine holds and
\* creates and stops no tone; when an oscillator is held it sets that tone's
\* frequency and nothing else of it, and leaves every other tone alone; when
\* none is held (never started, or stopped) it changes nothing.
C26_RetuneInPlace ==
    [][\A f \in ToneFreqs :
          UpdateTinnitusFreq(f) =>
              /\ UNCHANGED <<tinnitusOsc, tinnitusGain, ctxVars, thrown>>
              /\ Len(tones') = Len(tones)
              /\ \A t \in ToneIds :
                    /\ tones'[t].gainTarget = tones[t].gainTarget
                    /\ tones'[t].stops = tones[t].stops
                    /\ tones'[t].freq = IF t = tinnitusOsc THEN f ELSE tones[t].freq
              /\ tinnitusOsc = Null => tones' = tones]_vars

\* The held tone, started at 8000 Hz after an earlier one was stopped, has
\* been retuned to 10000 Hz; the stopped one was never retuned.
C26_Witness ==
    /\ Len(tones) = 2
    /\ tinnitusOsc = 2
    /\ tones[2].retuned /\ tones[2].freq = MAX_FREQ /\ tones[2].stops = 0
    /\ ~tones[1].retuned /\ tones[1].stops = 1


\* C27: ducking is a no-op without a live RAIN.  Whenever RAIN is not in the
\* ActiveSoundSet, rainGainNode is null, so the updateRainDynamics of every
\* start, stop and end event returns at its guard and schedules nothing; and a
\* RAIN channel whose stop handle has been called is never again the gain
\* rainGainNode refers to, and keeps the target 0 of its stop fade through every
\* later start, stop and end of the other sounds.
C27_DuckingNeedsLiveRain ==
    /\ "RAIN" \notin activeSounds => rainGainNode = Null
    /\ \A c \in 1 .. Len(chan) :
          chan[c].id = "RAIN" /\ chan[c].stopCalls > 0 =>
              rainGainNode # c /\ chan[c].target = 0

\* RAIN was stopped right after its start, and a BIRD started after that has
\* reached its natural end with nothing left in the set.
C27_Witness ==
    /\ Len(chan) = 2
    /\ chan[1].id = "RAIN" /\ chan[1].immStop /\ chan[1].target = 0
    /\ chan[2].id = "BIRD" /\ chan[2].phase = "ended" /\ chan[2].stopCalls = 0
    /\ activeSounds = {} /\ rainGainNode = Null


\* C28: the calibration tone is used only during calibration.  Under the App's
\* handlers, in every reachable state the flag isPlaying is true exactly when
\* the engine holds a tone oscillator, every oscillator the engine no longer
\* holds has been stopped, and outside the tuning screen (INTRO, GARDEN) the
\* engine holds no tone oscillator.
C28_ToneOnlyWhileTuning ==
    /\ isPlaying <=> tinnitusOsc # Null
    /\ \A t \in 1 .. Len(tones) : t # tinnitusOsc => tones[t].stops > 0
    /\ mode \in {"INTRO", "GARDEN"} => tinnitusOsc = Null

\* The garden was entered by confirming while the second tone was playing,
\* after the first tone had been toggled off.
C28_Witness ==
    /\ mode = "GARDEN" /\ ~isPlaying
    /\ Len(tones) = 2
    /\ tones[1].stops = 1 /\ tones[2].stops = 1
    /\ tones[2].freq = MAX_FREQ /\ tones[2].retuned


\* C29: loading interleaves safely with the engine's calls.  In every step, a
\* channel that is created is sampled exactly when its category's buffer was
\* decoded in the state the start call ran in; every existing channel keeps its
\* id and its mode; and a step of loadAmbientTrack (its call, the resumption
\* after an asset, its completion) leaves the ActiveSoundSet, the channels and
\* rainGainNode unchanged.
C29_LoadingInterleavesSafely ==
    [][/\ Len(chan') \in {Len(chan), Len(chan) + 1}
       /\ \A c \in 1 .. Len(chan) :
             chan'[c].id = chan[c].id /\ chan'[c].sampled = chan[c].sampled
       /\ Len(chan') > Len(chan) =>
             chan'[Len(chan')].sampled = buffers[chan'[Len(chan')].id]
       /\ loadPc' # loadPc => UNCHANGED <<activeSounds, chan, rainGainNode>>]_vars

\* Loading has completed with two BIRD channels started during it: the first
\* before bird.mp3 was decoded (synthesized, still playing), the second after
\* (sampled), while rain.mp3 was still to come.
C29_Witness ==
    /\ loadPc = 7
    /\ Len(chan) = 2
    /\ chan[1].id = "BIRD" /\ ~chan[1].sampled /\ chan[1].phase = "playing"
    /\ chan[2].id = "BIRD" /\ chan[2].sampled /\ chan[2].phase = "playing"
    /\ buffers["RAIN"] /\ "BIRD" \in activeSounds


\* C30: no stale end event removes a newer channel's id.  When the end event
\* (onended of a sampled BIRD, the 500 ms timer of a synthesized one) of a
\* channel whose stop handle was called fires while a newer channel of the same
\* id is playing, the step leaves the ActiveSoundSet unchanged, leaves the
\* target of the gain rainGainNode refers to unchanged, and does not invoke the
\* old channel's end callback.
C30_NoStaleEndEvent ==
    [][\A c \in 1 .. Len(chan) :
          /\ OnEnded(c) \/ BirdTimeout(c)
          /\ chan[c].stopCalls > 0
          /\ \E d \in (c + 1) .. Len(chan) :
                chan[d].id = chan[c].id /\ chan[d].phase = "playing" /\ chan[d].stopCalls = 0
          => /\ activeSounds' = activeSounds
             /\ rainGainNode # Null =>
                    chan'[rainGainNode].target = chan[rainGainNode].target
             /\ chan'[c].cbCalls = chan[c].cbCalls]_vars


\* C38: within the calibration range neither clamp is active.  For every F from
\* 4500 to 10000 Hz the aggressive multiplier is F/8000 itself and lies strictly
\* between 0.5 and 2.5, and the damped multiplier is sqrt(F/8000) itself and
\* lies strictly between 0.6 and 1.8 (thousandths, rounded down).
C38_NoClampInRange ==
    (pDone /\ pF >= MIN_FREQ /\ pF <= MAX_FREQ) =>
        IF pAggressive
        THEN /\ pOut = (pF * 1000) \div 8000
             /\ pOut > 500 /\ pOut < 2500
        ELSE /\ pOut * pOut <= pF * 125
             /\ (pOut + 1) * (pOut + 1) > pF * 125
             /\ pOut > 600 /\ pOut < 1800

\* The aggressive multiplier at the upper end of the calibration range is 1.25.
C38_Witness ==
    pDone /\ pF = MAX_FREQ /\ pAggressive /\ pOut = 1250


\* C37: the ducking reference invariant.  After every start, stop-handle call
\* and end event, rainGainNode is non-null exactly when RAIN is in the
\* ActiveSoundSet, and when non-null it refers to the gain of the RAIN channel
\* started last.
C37_DuckingReference ==
    /\ rainGainNode # Null <=> "RAIN" \in activeSounds
    /\ rainGainNode # Null =>
          /\ rainGainNode \in ChanIds
          /\ chan[rainGainNode].id = "RAIN"
          /\ IsLatest(rainGainNode)

\* RAIN was started twice without a stop: the reference is the second gain.
C37_Witness ==
    /\ Len(chan) = 2
    /\ chan[1].id = "RAIN" /\ chan[1].stopCalls = 0
    /\ chan[2].id = "RAIN" /\ chan[2].stopCalls = 0
    /\ rainGainNode = 2 /\ "RAIN" \in activeSounds


\* the time of the event of the given kind that the start scheduled on the
\* gain, ending at zero or not
EnvelopeTime(kind, zero) ==
    LET i == CHOOSE j \in 1 .. Len(gainEvents) :
                 /\ gainEvents[j].kind = kind
                 /\ (gainEvents[j].value = 0) = zero
    IN  gainEvents[i].time

\* C36: the envelope points of a sampled BIRD are in time order.  With the start
\* at time 0: the rise begins at 0 and ends no later than the hold point of the
\* fade-out, which lies no later than the natural end, and the rate is within
\* [0.5, 2.5].
C36_EnvelopeInOrder ==
    (fadePhase = "playing" /\ fadeCase.op = "BIRD" /\ fadeCase.sampled) =>
        /\ fadeCase.rate >= AggressiveMin /\ fadeCase.rate <= AggressiveMax
        /\ Len(gainEvents) = 4
        /\ 0 <= EnvelopeTime("set", TRUE)
        /\ EnvelopeTime("set", TRUE) <= EnvelopeTime("lin", FALSE)
        /\ EnvelopeTime("lin", FALSE) <= EnvelopeTime("set", FALSE)
        /\ EnvelopeTime("set", FALSE) <= EnvelopeTime("lin", TRUE)


\* C33: the end callback fires at most once per start and never for loops.
\* Over the whole life of a channel its callback has been invoked at most once,
\* and for WIND, LEAVES, WATER, RAIN and INSECT never: not while playing, not
\* after the stop handle was called, not after the sources stopped.
C33_CallbackAtMostOnce ==
    \A c \in ChanIds :
        /\ chan[c].cbCalls <= 1
        /\ chan[c].id # "BIRD" => chan[c].cbCalls = 0
        /\ ~chan[c].hasCb => chan[c].cbCalls = 0

\* A sampled BIRD given a callback was stopped twice by its handle and then
\* ended: one invocation; a loop started after it was stopped and its source
\* has stopped: none.
C33_Witness ==
    /\ Len(chan) = 2
    /\ chan[1].id = "BIRD" /\ chan[1].sampled /\ chan[1].hasCb
    /\ chan[1].stopCalls = 2 /\ chan[1].phase = "ended" /\ chan[1].cbCalls = 1
    /\ chan[2].id = "WATER" /\ chan[2].stopCalls = 1 /\ chan[2].phase = "ended"
    /\ chan[2].cbCalls = 0


\* C35: no orphaned running source.  Once a channel's stop handle has been
\* called, every source node the channel started and that still runs has a stop
\* scheduled, and eventually none of its source nodes runs; and a stop-handle
\* call schedules stops on the sources of its own channel only.
C35_NoOrphanedSource ==
    /\ [](\A c \in ChanIds :
             chan[c].stopCalls > 0 => chan[c].running \subseteq chan[c].scheduled)
    /\ \A n \in 1 .. StopChannels + 1 :
          (Len(chan) >= n /\ chan[n].stopCalls > 0)
              ~> (Len(chan) >= n /\ chan[n].running = {})
    /\ [][\A c \in ChanIds :
             chan'[c].stopCalls > chan[c].stopCalls =>
                 \A d \in ChanIds \ {c} :
                     /\ chan'[d].scheduled = chan[d].scheduled
                     /\ chan'[d].running = chan[d].running]_vars

\* Two synthesized LEAVES channels exist; the handle of the second was called
\* and both its noise source and its LFO have stopped, while the first still
\* runs with nothing scheduled.
C35_Witness ==
    /\ Len(chan) = 2
    /\ chan[1].id = "LEAVES" /\ ~chan[1].sampled /\ chan[1].stopCalls = 0
    /\ chan[1].running = {"noiseSrc", "lfo"} /\ chan[1].scheduled = {}
    /\ chan[2].id = "LEAVES" /\ ~chan[2].sampled /\ chan[2].stopCalls = 1
    /\ chan[2].scheduled = {"noiseSrc", "lfo"} /\ chan[2].running = {}


\* C34: a drone teardown timer releases only its own instance.  A step of the
\* teardown timer of instance d releases d, leaves every other instance as it
\* was and leaves droneNodes unchanged; the instance droneNodes refers to is
\* on; and at most one instance is neither released nor awaiting its teardown.
C34_TeardownOwnInstance ==
    /\ [][\A d \in DroneIds :
             DroneTeardown(d) =>
                 /\ droneNodes' = droneNodes
                 /\ drones'[d].phase = "released"
                 /\ \A e \in DroneIds \ {d} : drones'[e] = drones[e]]_vars
    /\ [](/\ droneNodes # Null => drones[droneNodes].phase = "on"
          /\ Cardinality({d \in DroneIds : drones[d].phase # "released"
                                            /\ drones[d].pending = 0}) <= 1)

\* The drone was re-enabled while the first instance's teardown timer was
\* pending; the timer has fired since, and the second instance is still on.
C34_Witness ==
    /\ Len(drones) = 2
    /\ drones[2].overlap /\ drones[2].phase = "on" /\ droneNodes = 2
    /\ drones[1].phase = "released" /\ drones[1].released = 1


\* a channel that was started and has been neither stopped by a handle nor
\* ended
LiveChannel(c) == chan[c].stopCalls = 0 /\ chan[c].phase = "playing"

\* C31: every playing channel stays stoppable from the UI.  Each channel that
\* is neither stopped nor ended has its id in the UI's set and its own stop
\* handle stored in stopFns, so at most one such channel exists per id.
C31_PlayingIsStoppable ==
    /\ \A c \in ChanIds :
          LiveChannel(c) => (chan[c].id \in uiActive /\ stopFns[chan[c].id] = c)
    /\ \A c, d \in ChanIds :
          (LiveChannel(c) /\ LiveChannel(d) /\ chan[c].id = chan[d].id) => c = d

\* C32: the UI and the engine agree on what is active.  After every UI
\* operation and every end callback the UI's set equals the engine's
\* ActiveSoundSet, and stopFns has an entry for exactly the ids in that set.
C32_UiMatchesEngine ==
    /\ uiActive = activeSounds
    /\ \A x \in Ids : stopFns[x] # Null <=> x \in uiActive

\* A preset was applied over a playing BIRD: BIRD was stopped through its
\* handle and its end callback has run since; the preset's two sounds play.
C32_Witness ==
    /\ Len(chan) = 3
    /\ chan[1].id = "BIRD" /\ chan[1].stopCalls = 1
    /\ chan[1].phase = "ended" /\ chan[1].cbCalls = 1
    /\ chan[2].id = "INSECT" /\ LiveChannel(2)
    /\ chan[3].id = "WIND" /\ LiveChannel(3)
    /\ uiActive = {"INSECT", "WIND"}
    /\ stopFns["INSECT"] = 2 /\ stopFns["WIND"] = 3

====
